---- MODULE Spec2Model ----
(***************************************************************************)
(* Model of elysium-lsp: the two macro-convention indexers (HookPlugin,    *)
(* InitDependencyPlugin), the token helpers they share (clang_utils) and   *)
(* the completion-region predicate (range_contains).                       *)
(*                                                                         *)
(* Strings are sequences of one-character strings, so that trim,           *)
(* trim_matches and format! are computed character by character.           *)
(* Positions are <<line, character>> pairs, ranges are records             *)
(* [start, end] of positions, as in lsp_types.                             *)
(***************************************************************************)
EXTENDS Integers, Sequences, FiniteSets, TLC

VARIABLES
    disk,           \* the file system: real path -> content id, or NoFile
    hookFiles,      \* HookPlugin.files: canonical path -> HookFileData
    targetsByFile,  \* InitDependencyPlugin.targets_by_file: path -> targets
    ret,            \* what each plugin's on_file_updated returned last
    input,          \* argument of the pure function under check
    output,         \* its result, Pending before the call
    documents,      \* State.documents: uri -> the editor's text
    published_paths,\* State.published_paths
    client,         \* the editor: path -> the diagnostics last published
    tasks           \* the running event handlers: task -> its position

\* the coordinator (lsp.rs) and the editor it talks to
server == <<documents, published_paths, client, tasks>>

vars ==
    <<disk, hookFiles, targetsByFile, ret, input, output, documents,
      published_paths, client, tasks>>

------------------------------------------------------------------------------
(* Bounds of the model *)

\* longest token sequence handed to split_macro_args in SpecSplit
MaxLen == 6
\* largest line / character of the ranges and positions in SpecRange
MaxCoord == 2
\* the largest line and character of a completion request
MaxLine == 2
MaxCol == 19
\* most content changes in one did_change, most changes in one watched-files
\* notification
MaxChanges == 2
MaxBatch == 2

------------------------------------------------------------------------------
(* Generic helpers *)

Pending == <<"pending">>
Done(v) == <<"done", v>>
Result(o) == o[2]
None == <<"None">>
Some(v) == <<"Some", v>>
IsSome(o) == o # None
Unwrap(o) == o[2]
\* Option::or_else
OrElse(o, alt) == IF o # None THEN o ELSE alt
\* Option::unwrap_or
UnwrapOr(o, default) == IF o # None THEN o[2] ELSE default

RECURSIVE Concat(_)
Concat(ss) == IF ss = <<>> THEN <<>> ELSE Head(ss) \o Concat(Tail(ss))

Max2(a, b) == IF a >= b THEN a ELSE b

\* u32::saturating_sub
saturating_sub(a, b) == IF a >= b THEN a - b ELSE 0

\* sequences over S of length 0..n
SeqsUpTo(S, n) == UNION {[1..k -> S] : k \in 0..n}

------------------------------------------------------------------------------
(* Positions and ranges (lsp_types::Position, lsp_types::Range) *)

Position(l, c) == <<l, c>>
Range(s, e) == [start |-> s, end |-> e]

range_contains_strict(range, pos) ==
    IF pos[1] < range.start[1] \/ pos[1] > range.end[1] THEN FALSE
    ELSE IF pos[1] = range.start[1] /\ pos[2] <= range.start[2] THEN FALSE
    ELSE IF pos[1] = range.end[1] /\ pos[2] >= range.end[2] THEN FALSE
    ELSE TRUE

\* plugins/mod.rs range_contains: three early returns, then true
range_contains(range, pos) ==
    IF pos[1] < range.start[1] \/ pos[1] > range.end[1] THEN FALSE
    ELSE IF pos[1] = range.start[1] /\ pos[2] < range.start[2] THEN FALSE
    ELSE IF pos[1] = range.end[1] /\ pos[2] > range.end[2] THEN FALSE
    ELSE TRUE

------------------------------------------------------------------------------
(* Tokens of the front end.  A token carries its spelling, its kind and  *)
(* its extent in the front end's one-based (line, column) locations; the *)
(* extent's end is the location just past the token's last character.    *)

LPAREN == <<"(">>
RPAREN == <<")">>
COMMA == <<",">>
QUOTE == "\""

Token(text, kind, line, col) ==
    [text |-> text, kind |-> kind,
     locStart |-> <<line, col>>, locEnd |-> <<line, col + Len(text)>>]

\* clang_utils.rs tokens_to_string: the spellings, concatenated, always Some
tokens_to_string(tokens) ==
    Some(Concat([i \in 1..Len(tokens) |-> tokens[i].text]))

\* clang_utils.rs cxlocation_to_position: one-based to zero-based, always Some
cxlocation_to_position(loc) ==
    Some(Position(saturating_sub(loc[1], 1), saturating_sub(loc[2], 1)))

\* clang_utils.rs token_range
token_range(token) ==
    LET s == cxlocation_to_position(token.locStart)
        e == cxlocation_to_position(token.locEnd)
    IN  IF s = None \/ e = None THEN None
        ELSE Some(Range(Unwrap(s), Unwrap(e)))

\* clang_utils.rs tokens_range: first token's start to last token's end
tokens_range(tokens) ==
    IF tokens = <<>> THEN None
    ELSE LET f == token_range(tokens[1])
             l == token_range(tokens[Len(tokens)])
         IN  IF f = None \/ l = None THEN None
             ELSE Some(Range(Unwrap(f).start, Unwrap(l).end))

(* split_macro_args: the loop's state is (args, current, depth, collecting) *)
(* and whether the break was taken.                                        *)
SplitInit ==
    [args |-> <<>>, current |-> <<>>, depth |-> 0, collecting |-> FALSE,
     done |-> FALSE]

\* a mutated loop body: a nested "(" is taken for a delimiter and dropped
SplitStepDropNested(st, token) ==
    LET spelling == Unwrap(tokens_to_string(<<token>>)) IN
    IF st.done THEN st
    ELSE IF spelling = LPAREN /\ ~st.collecting
        THEN [st EXCEPT !.collecting = TRUE]
    ELSE IF spelling = LPAREN
        THEN [st EXCEPT !.depth = @ + 1]
    ELSE IF spelling = RPAREN /\ st.depth = 0
        THEN [st EXCEPT !.args = Append(@, st.current), !.done = TRUE]
    ELSE IF spelling = RPAREN
        THEN [st EXCEPT !.depth = @ - 1]
    ELSE IF spelling = COMMA /\ st.depth = 0
        THEN [st EXCEPT !.args = Append(@, st.current), !.current = <<>>]
    ELSE IF st.collecting
        THEN [st EXCEPT !.current = Append(@, token)]
    ELSE st

\* clang_utils.rs split_macro_args, one iteration of the for loop: the match
\* arms in their order
SplitStep(st, token) ==
    LET spelling == Unwrap(tokens_to_string(<<token>>)) IN
    IF st.done THEN st
    ELSE IF spelling = LPAREN /\ ~st.collecting
        THEN [st EXCEPT !.collecting = TRUE]
    ELSE IF spelling = LPAREN
        THEN [st EXCEPT !.depth = @ + 1, !.current = Append(@, token)]
    ELSE IF spelling = RPAREN /\ st.depth = 0
        THEN [st EXCEPT !.args = Append(@, st.current), !.done = TRUE]
    ELSE IF spelling = RPAREN
        THEN [st EXCEPT !.depth = @ - 1, !.current = Append(@, token)]
    ELSE IF spelling = COMMA /\ st.depth = 0
        THEN [st EXCEPT !.args = Append(@, st.current), !.current = <<>>]
    ELSE IF st.collecting
        THEN [st EXCEPT !.current = Append(@, token)]
    ELSE st

RECURSIVE SplitLoop(_, _)
SplitLoop(st, tokens) ==
    IF tokens = <<>> THEN st
    ELSE SplitLoop(SplitStep(st, Head(tokens)), Tail(tokens))

\* clang_utils.rs split_macro_args: Some(args), whatever the loop did
split_macro_args(tokens) == Some(SplitLoop(SplitInit, tokens).args)

------------------------------------------------------------------------------
(* Laying out a line of source text as tokens *)

Digits == {"0", "1", "2", "3", "4", "5", "6", "7", "8", "9"}
APOSTROPHE == "'"

\* kind of a spelling, as the front end classifies it: CXToken_Literal is the
\* kind of string, character and numeric literals alike
KindOf(text) ==
    IF text \in {LPAREN, RPAREN, COMMA} THEN "Punctuation"
    ELSE IF Head(text) \in {QUOTE, APOSTROPHE} \cup Digits THEN "Literal"
    ELSE "Identifier"

\* a blank between two tokens
SP == <<" ">>

\* the tokens of the spellings `texts`, adjacent on line `line` from `col`; a
\* blank takes its column and yields no token
RECURSIVE Lay(_, _, _)
Lay(line, col, texts) ==
    IF texts = <<>> THEN <<>>
    ELSE IF Head(texts) = SP THEN Lay(line, col + 1, Tail(texts))
    ELSE <<Token(Head(texts), KindOf(Head(texts)), line, col)>>
         \o Lay(line, col + Len(Head(texts)), Tail(texts))

------------------------------------------------------------------------------
(* Characters and strings *)

NUL == "NUL"
Whitespace == {" ", "\t", "\n", "\r"}

\* the printable ASCII characters from 0x20 to 0x7A, in code order (the
\* backslash and the backtick under a name)
AsciiTable ==
    <<" ", "!", "\"", "#", "$", "%", "&", "'", "(", ")", "*", "+", ",", "-",
      ".", "/", "0", "1", "2", "3", "4", "5", "6", "7", "8", "9", ":", ";",
      "<", "=", ">", "?", "@", "A", "B", "C", "D", "E", "F", "G", "H", "I",
      "J", "K", "L", "M", "N", "O", "P", "Q", "R", "S", "T", "U", "V", "W",
      "X", "Y", "Z", "[", "BACKSLASH", "]", "^", "_", "BACKTICK",
      "a", "b", "c", "d", "e",
      "f", "g", "h", "i", "j", "k", "l", "m", "n", "o", "p", "q", "r", "s",
      "t", "u", "v", "w", "x", "y", "z">>

CodeOf ==
    [ch \in {AsciiTable[i] : i \in 1..Len(AsciiTable)} |->
        31 + (CHOOSE i \in 1..Len(AsciiTable) : AsciiTable[i] = ch)]

\* Ord for String: byte-wise lexicographic order, a proper prefix first
RECURSIVE StrLess(_, _)
StrLess(a, b) ==
    IF b = <<>> THEN FALSE
    ELSE IF a = <<>> THEN TRUE
    ELSE IF Head(a) = Head(b) THEN StrLess(Tail(a), Tail(b))
    ELSE CodeOf[Head(a)] < CodeOf[Head(b)]

RECURSIVE TrimStart(_)
TrimStart(s) ==
    IF s # <<>> /\ Head(s) \in Whitespace THEN TrimStart(Tail(s)) ELSE s

RECURSIVE TrimEnd(_)
TrimEnd(s) ==
    IF s # <<>> /\ s[Len(s)] \in Whitespace
    THEN TrimEnd(SubSeq(s, 1, Len(s) - 1)) ELSE s

\* str::trim
trim(s) == TrimEnd(TrimStart(s))

RECURSIVE TrimStartMatches(_, _)
TrimStartMatches(s, ch) ==
    IF s # <<>> /\ Head(s) = ch THEN TrimStartMatches(Tail(s), ch) ELSE s

RECURSIVE TrimEndMatches(_, _)
TrimEndMatches(s, ch) ==
    IF s # <<>> /\ s[Len(s)] = ch
    THEN TrimEndMatches(SubSeq(s, 1, Len(s) - 1), ch) ELSE s

\* str::trim_matches(char)
trim_matches(s, ch) == TrimEndMatches(TrimStartMatches(s, ch), ch)

\* CString::new succeeds unless the bytes hold an interior NUL
CStringNewOk(s) == \A i \in 1..Len(s) : s[i] # NUL

\* the elements of a set of strings as a sequence in ascending order, each once
RECURSIVE SortedStrings(_)
SortedStrings(S) ==
    IF S = {} THEN <<>>
    ELSE LET m == CHOOSE x \in S : \A y \in S \ {x} : StrLess(x, y)
         IN  <<m>> \o SortedStrings(S \ {m})

\* the elements of a set as a sequence, in some fixed order
RECURSIVE SetToSeq(_)
SetToSeq(S) ==
    IF S = {} THEN <<>>
    ELSE LET m == CHOOSE x \in S : TRUE IN <<m>> \o SetToSeq(S \ {m})

------------------------------------------------------------------------------
(* Paths and the file system *)

A_C == <<"a", ".", "c">>
B_C == <<"b", ".", "c">>
\* a symbolic link to a.c
L_C == <<"l", ".", "c">>
\* a header: not the recognized source extension
N_H == <<"n", ".", "h">>
\* a symbolic link to n.h that carries the source extension
M_C == <<"m", ".", "c">>
\* a source file whose compile_commands.json entry holds a flag with a NUL
Z_C == <<"z", ".", "c">>
\* a path with an interior NUL
Q_C == <<"q", NUL, ".", "c">>

\* the paths that can hold a file on disk
RealPaths == {A_C, B_C}
\* the paths the editor can name in an event
Paths == {A_C, B_C, L_C, N_H, Z_C, Q_C}

NoFile == "NoFile"

LinkTarget(path) ==
    IF path = L_C THEN A_C ELSE IF path = M_C THEN N_H ELSE path

LastIndexOf(s, ch) ==
    LET is == {i \in 1..Len(s) : s[i] = ch}
    IN  IF is = {} THEN 0 ELSE CHOOSE i \in is : \A j \in is : j <= i

\* Path::extension: the part of the file name after its last ".", none when
\* the name has no "." or only a leading one
extension(path) ==
    LET name == SubSeq(path, LastIndexOf(path, "/") + 1, Len(path))
        dot == LastIndexOf(name, ".")
    IN  IF dot <= 1 THEN None ELSE Some(SubSeq(name, dot + 1, Len(name)))

\* Path::canonicalize(...).ok(): the resolved path of an existing file
canonicalize(dsk, path) ==
    LET target == LinkTarget(path)
    IN  IF CStringNewOk(path) /\ target \in DOMAIN dsk /\ dsk[target] # NoFile
        THEN Some(target) ELSE None

\* path.canonicalize().unwrap_or_else(|_| path.to_path_buf())
canonicalize_or_self(dsk, path) == UnwrapOr(canonicalize(dsk, path), path)

------------------------------------------------------------------------------
(* Compile flags (compile_commands.rs) *)

DEFAULT_CLANG_ARGS ==
    << <<"-", "I", "i", "n", "c", "l", "u", "d", "e">>,
       <<"-", "s", "t", "d", "=", "g", "n", "u", "2", "3">> >>

\* CompileCommands.entries as loaded from the project's compile_commands.json
CompileEntries == [p \in {Z_C} |-> << <<"-", "D", "X", "=", NUL>> >>]

\* CompileCommands.entries.get(canonical), else the default arguments
EntryOrDefault(canonical) ==
    IF canonical \in DOMAIN CompileEntries THEN CompileEntries[canonical]
    ELSE DEFAULT_CLANG_ARGS

\* CompileCommands::args_for: the entry of the canonical path, else the
\* default arguments (the candidate root.join(rel) is the canonical path again)
args_for(dsk, file) == EntryOrDefault(canonicalize_or_self(dsk, file))

------------------------------------------------------------------------------
(* File contents, as the front end sees them: the cursors of the        *)
(* translation unit in visiting order, each with its kind, its spelling *)
(* and the tokens of its extent.                                        *)

S_HOOK == <<"H", "O", "O", "K">>
S_HOOK_RUN == <<"H", "O", "O", "K", "_", "R", "U", "N">>
S_INIT_TARGET == <<"I", "N", "I", "T", "_", "T", "A", "R", "G", "E", "T">>
S_build == <<"b", "u", "i", "l", "d">>
S_missing == <<"m", "i", "s", "s", "i", "n", "g">>
S_define == <<"#", "d", "e", "f", "i", "n", "e">>

Lit(name) == <<QUOTE>> \o name \o <<QUOTE>>

\* a cursor of kind `kind` on line `line`, spelled as its first token
Cursor(kind, line, texts) ==
    [kind |-> kind, spelling |-> texts[1], tokens |-> Lay(line, 1, texts),
     locStart |-> <<line, 1>>,
     locEnd |-> <<line, 1 + Len(Concat(texts))>>]

MacroExpansion(line, texts) == Cursor("MacroExpansion", line, texts)

\* INIT_TARGET(name, stage, scope, D(deps...)) as spellings
InitTargetTexts(name, deps) ==
    <<S_INIT_TARGET, LPAREN, name, COMMA, <<"S">>, COMMA, <<"C">>, COMMA,
      <<"D">>, LPAREN>> \o deps \o <<RPAREN, RPAREN>>

\* HOOK(build)
\* HOOK_RUN(build);
\* INIT_TARGET(a,S,C,D())
K1 ==
    [nul |-> FALSE,
     cursors |->
       <<MacroExpansion(1, <<S_HOOK, LPAREN, S_build, RPAREN>>),
         MacroExpansion(2, <<S_HOOK_RUN, LPAREN, S_build, RPAREN, <<";">> >>),
         MacroExpansion(3, InitTargetTexts(<<"a">>, <<>>))>>]

\* HOOK_RUN( missing )
\* HOOK_RUN()
\* INIT_TARGET(t,S,C,D("a","a"))
\* INIT_TARGET(v,S,C,D("a"))
K2 ==
    [nul |-> FALSE,
     cursors |->
       <<MacroExpansion(1, <<S_HOOK_RUN, LPAREN, SP, S_missing, SP, RPAREN>>),
         MacroExpansion(2, <<S_HOOK_RUN, LPAREN, RPAREN>>),
         MacroExpansion(3, InitTargetTexts(<<"t">>,
                               <<Lit(<<"a">>), COMMA, Lit(<<"a">>)>>)),
         MacroExpansion(4, InitTargetTexts(<<"v">>, <<Lit(<<"a">>)>>))>>]

\* #define HOOK
\* HOOK(missing)
\* HOOK(missing)
\* HOOK(x,y)
\* INIT_TARGET(u,S,C,D("u","x"))
\* INIT_TARGET(w,S)
K3 ==
    [nul |-> FALSE,
     cursors |->
       <<Cursor("MacroDefinition", 1, <<S_HOOK>>),
         MacroExpansion(2, <<S_HOOK, LPAREN, S_missing, RPAREN>>),
         MacroExpansion(3, <<S_HOOK, LPAREN, S_missing, RPAREN>>),
         MacroExpansion(4, <<S_HOOK, LPAREN, <<"x">>, COMMA, <<"y">>, RPAREN>>),
         MacroExpansion(5, InitTargetTexts(<<"u">>,
                               <<Lit(<<"u">>), COMMA, Lit(<<"x">>)>>)),
         MacroExpansion(6, <<S_INIT_TARGET, LPAREN, <<"w">>, COMMA, <<"S">>,
                             RPAREN>>)>>]

\* an editor buffer holding a NUL character
KNUL ==
    [nul |-> TRUE,
     cursors |-> <<MacroExpansion(1, <<S_HOOK, LPAREN, S_build, RPAREN>>)>>]

Contents == [k \in {"K1", "K2", "K3", "KNUL"} |->
                CASE k = "K1" -> K1
                  [] k = "K2" -> K2
                  [] k = "K3" -> K3
                  [] k = "KNUL" -> KNUL]

\* what a file on disk can hold, and what the editor can send as text
DiskContents == {"K1", "K2"}
EditorContents == {"K1", "K2", "K3", "KNUL"}

\* the translation unit of the file on disk, when there is one to read
UnitOfFile(dsk, canonical) ==
    IF canonical = None THEN None ELSE Some(dsk[Unwrap(canonical)])

\* clang_parseTranslationUnit: a translation unit of the unsaved buffer when
\* one is given, else of the file on disk; none when the front end gives up
\* (fe) or there is nothing to read.  The handle names the content parsed.
clang_parseTranslationUnit(dsk, filename, content, fe) ==
    IF fe # "ok" THEN None
    ELSE IF content # None THEN Some(Unwrap(content))
    ELSE UnitOfFile(dsk, canonicalize(dsk, filename))

\* clang_utils.rs tokenize_cursor: none when the extent yields no token
tokenize_cursor(cursor) ==
    IF Len(cursor.tokens) = 0 THEN None ELSE Some(cursor.tokens)

\* clang_utils.rs cursor_range
cursor_range(cursor) ==
    LET s == cxlocation_to_position(cursor.locStart)
        e == cxlocation_to_position(cursor.locEnd)
    IN  IF s = None \/ e = None THEN None
        ELSE Some(Range(Unwrap(s), Unwrap(e)))

------------------------------------------------------------------------------
(* Results *)

Ok(v) == <<"Ok", v>>
Err == <<"Err">>

\* what on_file_updated returns after the three CString::new calls and the
\* front end: an error for an interior NUL in the path, a flag or the text
EncodeOk(path, args, content) ==
    /\ CStringNewOk(path)
    /\ \A i \in 1..Len(args) : CStringNewOk(args[i])
    /\ (content # None => ~Contents[Unwrap(content)].nul)

------------------------------------------------------------------------------
(* The hook indexer (plugins/hooks.rs) *)

HookDefinition(name) == [name |-> name]

HookInvocation(name, name_range, argument_region, kind) ==
    [name |-> name, name_range |-> name_range,
     argument_region |-> argument_region, kind |-> kind]

HookFileData(definitions, invocations) ==
    [definitions |-> definitions, invocations |-> invocations]

\* hooks.rs macro_argument_region, one iteration of the loop; ret is
\* <<"run">> while the loop goes on, else <<"ret", the value returned>>
MacroArgumentRegionStep(st, token) ==
    LET text == Unwrap(tokens_to_string(<<token>>))
        r == token_range(token)
    IN  IF st.ret # <<"run">> THEN st
        ELSE IF text = LPAREN THEN
            IF st.depth = 0 THEN
                IF r = None THEN [st EXCEPT !.ret = <<"ret", None>>]
                ELSE [st EXCEPT !.start = Some(Unwrap(r).end),
                                !.depth = @ + 1]
            ELSE [st EXCEPT !.depth = @ + 1]
        ELSE IF text = RPAREN THEN
            IF st.depth = 0 THEN st
            ELSE IF st.depth - 1 = 0 THEN
                IF r = None THEN [st EXCEPT !.ret = <<"ret", None>>]
                ELSE IF st.start # None
                    THEN [st EXCEPT !.ret =
                            <<"ret",
                              Some(Range(Unwrap(st.start), Unwrap(r).start))>>]
                ELSE [st EXCEPT !.depth = @ - 1]
            ELSE [st EXCEPT !.depth = @ - 1]
        ELSE st

RECURSIVE MacroArgumentRegionLoop(_, _)
MacroArgumentRegionLoop(st, tokens) ==
    IF tokens = <<>> THEN st
    ELSE MacroArgumentRegionLoop(MacroArgumentRegionStep(st, Head(tokens)),
                                 Tail(tokens))

\* hooks.rs macro_argument_region: from the end of the first top-level "(" to
\* the start of the ")" that closes it
macro_argument_region(tokens) ==
    LET st == MacroArgumentRegionLoop(
                  [depth |-> 0, start |-> None, ret |-> <<"run">>], tokens)
    IN  IF st.ret = <<"run">> THEN None ELSE st.ret[2]

\* hooks.rs build_hook_definition, from the trimmed name on
HookDefinitionNamed(name) ==
    IF name = <<>> THEN None ELSE Some(HookDefinition(name))

\* hooks.rs build_hook_definition, from the split arguments on
HookDefinitionOfArgs(args) ==
    IF args = None THEN None
    ELSE IF Len(Unwrap(args)) # 1 THEN None
    ELSE HookDefinitionNamed(trim(Unwrap(tokens_to_string(Unwrap(args)[1]))))

\* hooks.rs build_hook_definition, from the cursor's tokens on
HookDefinitionOfTokens(tokens) ==
    IF tokens = None THEN None
    ELSE HookDefinitionOfArgs(split_macro_args(Unwrap(tokens)))

\* hooks.rs build_hook_definition
build_hook_definition(cursor) ==
    HookDefinitionOfTokens(tokenize_cursor(cursor))

\* a mutated build_hook_usage that drops an occurrence with an empty argument
HookUsageNamedSkipEmpty(kind, name_tokens, argument_region) ==
    IF name_tokens = <<>> THEN None
    ELSE Some(HookInvocation(trim(Unwrap(tokens_to_string(name_tokens))),
                             UnwrapOr(tokens_range(name_tokens),
                                      argument_region),
                             argument_region, kind))

\* hooks.rs build_hook_usage, the name and its range: an empty argument gives
\* the empty name at the argument region
HookUsageNamed(kind, name_tokens, argument_region) ==
    IF name_tokens = <<>>
    THEN Some(HookInvocation(<<>>, argument_region, argument_region, kind))
    ELSE Some(HookInvocation(trim(Unwrap(tokens_to_string(name_tokens))),
                             UnwrapOr(tokens_range(name_tokens),
                                      argument_region),
                             argument_region, kind))

\* a mutated build_hook_usage that takes the first argument whatever their
\* number
HookUsageOfArgsAnyArity(kind, args, argument_region) ==
    IF args = None THEN None
    ELSE IF Len(Unwrap(args)) = 0 THEN None
    ELSE IF argument_region = None THEN None
    ELSE HookUsageNamed(kind, Unwrap(args)[1], Unwrap(argument_region))

\* hooks.rs build_hook_usage, from the split arguments and the argument
\* region on
HookUsageOfArgs(kind, args, argument_region) ==
    IF args = None THEN None
    ELSE IF Len(Unwrap(args)) # 1 THEN None
    ELSE IF argument_region = None THEN None
    ELSE HookUsageNamed(kind, Unwrap(args)[1], Unwrap(argument_region))

\* hooks.rs build_hook_usage, from the cursor's tokens on
HookUsageOfTokens(cursor, kind, tokens) ==
    IF tokens = None THEN None
    ELSE HookUsageOfArgs(kind, split_macro_args(Unwrap(tokens)),
                         OrElse(macro_argument_region(Unwrap(tokens)),
                                cursor_range(cursor)))

\* hooks.rs build_hook_usage
build_hook_usage(cursor, kind) ==
    HookUsageOfTokens(cursor, kind, tokenize_cursor(cursor))

\* collector.definitions.push(definition), if there is one
PushDefinition(collector, definition) ==
    IF definition = None THEN collector
    ELSE [collector EXCEPT !.definitions = Append(@, Unwrap(definition))]

\* collector.invocations.push(invocation), if there is one
PushInvocation(collector, invocation) ==
    IF invocation = None THEN collector
    ELSE [collector EXCEPT !.invocations = Append(@, Unwrap(invocation))]

\* hooks.rs visit_hooks: what one cursor adds to the collector
visit_hooks(collector, cursor) ==
    IF cursor.kind # "MacroExpansion" THEN collector
    ELSE IF cursor.spelling = S_HOOK
    THEN PushInvocation(
             PushDefinition(collector, build_hook_definition(cursor)),
             build_hook_usage(cursor, "Definition"))
    ELSE IF cursor.spelling = S_HOOK_RUN
    THEN PushInvocation(collector, build_hook_usage(cursor, "Run"))
    ELSE collector

\* clang_visitChildren with visit_hooks over the translation unit
RECURSIVE VisitHooksAll(_, _)
VisitHooksAll(collector, cursors) ==
    IF cursors = <<>> THEN collector
    ELSE VisitHooksAll(visit_hooks(collector, Head(cursors)), Tail(cursors))

\* the collector after clang_visitChildren, for each translation unit
HookCollector ==
    [tu \in DOMAIN Contents |->
        VisitHooksAll(HookFileData(<<>>, <<>>), Contents[tu].cursors)]

\* hooks.rs parse_hooks, from the translation unit on
HooksOfUnit(tu) ==
    IF tu = None THEN Err ELSE Ok(HookCollector[Unwrap(tu)])

\* hooks.rs parse_hooks
parse_hooks(dsk, path, args, content, fe) ==
    IF ~EncodeOk(path, args, content) THEN Err
    ELSE HooksOfUnit(clang_parseTranslationUnit(dsk, path, content, fe))

\* HashMap::insert
MapInsert(map, key, value) ==
    [k \in DOMAIN map \cup {key} |-> IF k = key THEN value ELSE map[k]]

\* HashMap::remove
MapRemove(map, key) == [k \in DOMAIN map \ {key} |-> map[k]]

\* a mutated end of on_file_updated: the entry is dropped when the parse
\* fails
StoreOrClear(files, canonical, data) ==
    IF data = Err THEN [files |-> MapRemove(files, canonical), ret |-> "Err"]
    ELSE [files |-> MapInsert(files, canonical, data[2]), ret |-> "Ok"]

\* the end of on_file_updated in both plugins: `?` returns the parse error
\* and leaves the map alone, else the parsed data replaces the file's entry
StoreParsed(files, canonical, data) ==
    IF data = Err THEN [files |-> files, ret |-> "Err"]
    ELSE [files |-> MapInsert(files, canonical, data[2]), ret |-> "Ok"]

\* a mutated end of HookPlugin::on_file_updated: the new entities are
\* appended to the file's old ones
HookStoreMerged(files, canonical, data) ==
    IF data = Err THEN [files |-> files, ret |-> "Err"]
    ELSE IF canonical \in DOMAIN files
    THEN [files |-> MapInsert(files, canonical,
              HookFileData(
                  files[canonical].definitions \o data[2].definitions,
                  files[canonical].invocations \o data[2].invocations)),
          ret |-> "Ok"]
    ELSE [files |-> MapInsert(files, canonical, data[2]), ret |-> "Ok"]

\* hooks.rs HookPlugin::on_file_updated, the end: parse, then insert
HookStore(files, canonical, data) == StoreParsed(files, canonical, data)

\* hooks.rs HookPlugin::on_file_updated, from the canonical path on
HookUpdateCanonical(files, dsk, canonical, content, fe) ==
    HookStore(files, canonical,
              parse_hooks(dsk, canonical, args_for(dsk, canonical), content,
                          fe))

\* hooks.rs HookPlugin::on_file_updated: the files after the call, and what
\* the call returns
HookPlugin_on_file_updated(files, dsk, path, content, fe) ==
    IF extension(path) # Some(<<"c">>) THEN [files |-> files, ret |-> "Ok"]
    ELSE HookUpdateCanonical(files, dsk, canonicalize_or_self(dsk, path),
                             content, fe)

\* files.remove(&canonical) when path.canonicalize() is Ok
RemoveCanonical(files, canonical) ==
    IF canonical # None THEN MapRemove(files, Unwrap(canonical)) ELSE files

\* hooks.rs HookPlugin::on_file_removed
HookPlugin_on_file_removed(files, dsk, path) ==
    RemoveCanonical(files, canonicalize(dsk, path))

\* hooks.rs HookPlugin::iter_definitions, as the set of the names
HookDefinitionNames(files) ==
    UNION {{files[f].definitions[i].name :
                i \in 1..Len(files[f].definitions)} : f \in DOMAIN files}

CompletionItem(label, kind, detail) ==
    [label |-> label, kind |-> kind, detail |-> detail]

S_hook == <<"h", "o", "o", "k">>

\* a mutated completion_items: the names of the queried file only
HookPlugin_completion_items_first_file(files) ==
    LET f == CHOOSE f \in DOMAIN files : TRUE
        names == SortedStrings(
            {files[f].definitions[i].name : i \in 1..Len(files[f].definitions)})
    IN  [i \in 1..Len(names) |-> CompletionItem(names[i], "FUNCTION", S_hook)]

\* hooks.rs HookPlugin::completion_items: the BTreeSet of the definition
\* names, in its order
HookPlugin_completion_items(files) ==
    LET names == SortedStrings(HookDefinitionNames(files))
    IN  [i \in 1..Len(names) |-> CompletionItem(names[i], "FUNCTION", S_hook)]

\* a mutated completions: the position is looked up in the name ranges
HookPlugin_completions_in_name(files, dsk, path, position) ==
    LET canonical == canonicalize_or_self(dsk, path) IN
    IF canonical \notin DOMAIN files THEN None
    ELSE LET data == files[canonical]
             in_region == \E i \in 1..Len(data.invocations) :
                 range_contains(data.invocations[i].name_range, position)
         IN  IF ~in_region THEN None
             ELSE Some(HookPlugin_completion_items(files))

\* hooks.rs HookPlugin::completions
HookPlugin_completions(files, dsk, path, position) ==
    LET canonical == canonicalize_or_self(dsk, path) IN
    IF canonical \notin DOMAIN files THEN None
    ELSE LET data == files[canonical]
             in_region == \E i \in 1..Len(data.invocations) :
                 range_contains(data.invocations[i].argument_region, position)
         IN  IF ~in_region THEN None
             ELSE Some(HookPlugin_completion_items(files))

Diagnostic(range, severity, message, source) ==
    [range |-> range, severity |-> severity, message |-> message,
     source |-> source]

S_UnknownHook ==
    <<"U", "n", "k", "n", "o", "w", "n", " ", "h", "o", "o", "k", " ", "'">>
S_cronus_hooks ==
    <<"c", "r", "o", "n", "u", "s", "-", "h", "o", "o", "k", "s">>

\* hooks.rs HookPlugin::diagnostics, the inner loop over one file's
\* invocations: the diagnostics pushed, in order
RECURSIVE HookDiagnosticsOf(_, _)
HookDiagnosticsOf(invocations, known) ==
    IF invocations = <<>> THEN <<>>
    ELSE LET invocation == Head(invocations)
             rest == HookDiagnosticsOf(Tail(invocations), known)
         IN  IF invocation.kind # "Run" THEN rest
             ELSE IF invocation.name = <<>> THEN rest
             ELSE IF invocation.name \notin known
             THEN <<Diagnostic(invocation.name_range, "ERROR",
                               S_UnknownHook \o invocation.name \o <<"'">>,
                               S_cronus_hooks)>> \o rest
             ELSE rest

\* a mutated diagnostics: a name is looked up among the definitions of the
\* invocation's own file only
HookPlugin_diagnostics_own_file(files) ==
    LET knownOf(f) == {files[f].definitions[i].name :
                          i \in 1..Len(files[f].definitions)}
        reported == {f \in DOMAIN files :
                        HookDiagnosticsOf(files[f].invocations, knownOf(f))
                            # <<>>}
    IN  [f \in reported |->
            HookDiagnosticsOf(files[f].invocations, knownOf(f))]

\* hooks.rs HookPlugin::diagnostics: a file has an entry when something was
\* pushed for it
HookPlugin_diagnostics(files) ==
    LET known == HookDefinitionNames(files)
        reported == {f \in DOMAIN files :
                        HookDiagnosticsOf(files[f].invocations, known) # <<>>}
    IN  [f \in reported |-> HookDiagnosticsOf(files[f].invocations, known)]

------------------------------------------------------------------------------
(* The init-target indexer (plugins/init.rs) *)

DependencySlot(name, range) == [name |-> name, range |-> range]

InitTarget(name, stage_expr, scope_expr, file, dependency_region, dependency_slots) ==
    [name |-> name, stage_expr |-> stage_expr, scope_expr |-> scope_expr,
     file |-> file, dependency_region |-> dependency_region,
     dependency_slots |-> dependency_slots]

\* init.rs build_target, the loop body for a literal token whose range is
\* literal_range: the region's end moves to the literal's end, a slot is pushed
PushSlot(st, token, literal_range) ==
    IF literal_range = None THEN [st EXCEPT !.failed = TRUE]
    ELSE [st EXCEPT
            !.dependency_region.end = Unwrap(literal_range).end,
            !.dependency_slots =
                Append(@, DependencySlot(
                              trim_matches(Unwrap(tokens_to_string(<<token>>)),
                                           QUOTE),
                              Unwrap(literal_range)))]

\* init.rs build_target, one iteration of the loop over deps_tokens; failed
\* is set when a `?` leaves the function
BuildTargetStep(st, token) ==
    IF st.failed \/ token.kind # "Literal" THEN st
    ELSE PushSlot(st, token, token_range(token))

RECURSIVE BuildTargetLoop(_, _)
BuildTargetLoop(st, tokens) ==
    IF tokens = <<>> THEN st
    ELSE BuildTargetLoop(BuildTargetStep(st, Head(tokens)), Tail(tokens))

\* init.rs build_target, the end: the target, unless a `?` left the loop
TargetOfLoop(file, name, stage_expr, scope_expr, st) ==
    IF st.failed THEN None
    ELSE Some(InitTarget(name, stage_expr, scope_expr, file,
                         st.dependency_region, st.dependency_slots))

\* init.rs build_target, from the first dependency_region on
TargetOfRegion(file, args, region) ==
    IF region = None THEN None
    ELSE TargetOfLoop(file,
                      Unwrap(tokens_to_string(args[1])),
                      Unwrap(tokens_to_string(args[2])),
                      Unwrap(tokens_to_string(args[3])),
                      BuildTargetLoop([dependency_region |-> Unwrap(region),
                                       dependency_slots |-> <<>>,
                                       failed |-> FALSE], args[4]))

\* init.rs build_target, from the split arguments on
TargetOfArgs(file, cursor, args) ==
    IF args = None THEN None
    ELSE IF Len(Unwrap(args)) # 4 THEN None
    ELSE TargetOfRegion(file, Unwrap(args),
                        OrElse(tokens_range(Unwrap(args)[4]),
                               cursor_range(cursor)))

\* init.rs build_target, from the cursor's tokens on
TargetOfTokens(file, cursor, tokens) ==
    IF tokens = None THEN None
    ELSE TargetOfArgs(file, cursor, split_macro_args(Unwrap(tokens)))

\* init.rs build_target
build_target(file, cursor) ==
    TargetOfTokens(file, cursor, tokenize_cursor(cursor))

\* collector.targets.push(target), if there is one
PushTarget(targets, target) ==
    IF target = None THEN targets ELSE Append(targets, Unwrap(target))

\* init.rs visit_targets: what one cursor adds to the collector's targets
visit_targets(file, targets, cursor) ==
    IF cursor.kind = "MacroExpansion" /\ cursor.spelling = S_INIT_TARGET
    THEN PushTarget(targets, build_target(file, cursor))
    ELSE targets

\* clang_visitChildren with visit_targets over the translation unit
RECURSIVE VisitTargetsAll(_, _, _)
VisitTargetsAll(file, targets, cursors) ==
    IF cursors = <<>> THEN targets
    ELSE VisitTargetsAll(file, visit_targets(file, targets, Head(cursors)),
                         Tail(cursors))

\* the collector's targets after clang_visitChildren, for each file path and
\* translation unit
TargetCollector ==
    [path \in Paths \cup {M_C} |->
        [tu \in DOMAIN Contents |->
            VisitTargetsAll(path, <<>>, Contents[tu].cursors)]]

\* init.rs parse_targets, from the translation unit on
TargetsOfUnit(path, tu) ==
    IF tu = None THEN Err ELSE Ok(TargetCollector[path][Unwrap(tu)])

\* init.rs parse_targets
parse_targets(dsk, path, args, content, fe) ==
    IF ~EncodeOk(path, args, content) THEN Err
    ELSE TargetsOfUnit(path,
                       clang_parseTranslationUnit(dsk, path, content, fe))

\* a mutated end of InitDependencyPlugin::on_file_updated: the new targets are
\* appended to the file's old ones
InitStoreMerged(files, canonical, targets) ==
    IF targets = Err THEN [files |-> files, ret |-> "Err"]
    ELSE IF canonical \in DOMAIN files
    THEN [files |-> MapInsert(files, canonical,
                              files[canonical] \o targets[2]),
          ret |-> "Ok"]
    ELSE [files |-> MapInsert(files, canonical, targets[2]), ret |-> "Ok"]

\* init.rs InitDependencyPlugin::on_file_updated, the end: parse, then insert
InitStore(files, canonical, targets) == StoreParsed(files, canonical, targets)

\* init.rs InitDependencyPlugin::on_file_updated, from the canonical path on
InitUpdateCanonical(targets_by_file, dsk, canonical, content, fe) ==
    InitStore(targets_by_file, canonical,
              parse_targets(dsk, canonical, args_for(dsk, canonical), content,
                            fe))

\* init.rs InitDependencyPlugin::on_file_updated: the map after the call, and
\* what the call returns
InitDependencyPlugin_on_file_updated(targets_by_file, dsk, path, content, fe) ==
    IF extension(path) # Some(<<"c">>)
    THEN [files |-> targets_by_file, ret |-> "Ok"]
    ELSE InitUpdateCanonical(targets_by_file, dsk,
                             canonicalize_or_self(dsk, path), content, fe)

\* init.rs InitDependencyPlugin::on_file_removed
InitDependencyPlugin_on_file_removed(targets_by_file, dsk, path) ==
    RemoveCanonical(targets_by_file, canonicalize(dsk, path))

\* init.rs InitDependencyPlugin::iter_targets: the targets of all files, file
\* by file in the map's order
iter_targets(targets_by_file) ==
    LET keys == SetToSeq(DOMAIN targets_by_file)
    IN  Concat([i \in 1..Len(keys) |-> targets_by_file[keys[i]]])

\* the names of all indexed targets
InitTargetNames(targets_by_file) ==
    {iter_targets(targets_by_file)[i].name :
        i \in 1..Len(iter_targets(targets_by_file))}

S_UnknownInit ==
    <<"U", "n", "k", "n", "o", "w", "n", " ", "i", "n", "i", "t", " ",
      "d", "e", "p", "e", "n", "d", "e", "n", "c", "y", " ", "'">>
S_Duplicate ==
    <<"D", "u", "p", "l", "i", "c", "a", "t", "e", " ",
      "d", "e", "p", "e", "n", "d", "e", "n", "c", "y", " ", "'">>
S_in == <<"'", " ", "i", "n", " ">>
S_cronus_init == <<"c", "r", "o", "n", "u", "s", "-", "i", "n", "i", "t">>

\* counts[name]: how many of the target's slots carry the name
SlotCount(target, name) ==
    Cardinality({i \in 1..Len(target.dependency_slots) :
                    target.dependency_slots[i].name = name})

\* a mutated slot check: a name is looked up among the other targets only
SlotDiagnosticsKnownElsewhere(target, slot, known, all) ==
    IF slot.name \notin {all[t].name : t \in {t \in 1..Len(all) : all[t] # target}}
    THEN <<Diagnostic(slot.range, "ERROR",
                      S_UnknownInit \o slot.name \o <<"'">>, S_cronus_init)>>
    ELSE IF SlotCount(target, slot.name) > 1
    THEN <<Diagnostic(slot.range, "WARNING",
                      S_Duplicate \o slot.name \o S_in \o target.name,
                      S_cronus_init)>>
    ELSE <<>>

\* init.rs InitDependencyPlugin::diagnostics, the body of the loop over a
\* target's slots: an error for an unknown name, else a warning for a
\* name the target lists more than once
SlotDiagnostics(target, slot, known, all) ==
    IF slot.name \notin known
    THEN <<Diagnostic(slot.range, "ERROR",
                      S_UnknownInit \o slot.name \o <<"'">>, S_cronus_init)>>
    ELSE IF SlotCount(target, slot.name) > 1
    THEN <<Diagnostic(slot.range, "WARNING",
                      S_Duplicate \o slot.name \o S_in \o target.name,
                      S_cronus_init)>>
    ELSE <<>>

\* the diagnostics pushed for one target, in slot order
TargetDiagnostics(target, known, all) ==
    Concat([i \in 1..Len(target.dependency_slots) |->
               SlotDiagnostics(target, target.dependency_slots[i], known, all)])

\* init.rs InitDependencyPlugin::diagnostics: each target's diagnostics are
\* pushed to the entry of target.file
InitDependencyPlugin_diagnostics(targets_by_file) ==
    LET known == InitTargetNames(targets_by_file)
        all == iter_targets(targets_by_file)
        listOf(p) ==
            Concat([i \in 1..Len(all) |->
                       IF all[i].file = p
                       THEN TargetDiagnostics(all[i], known, all) ELSE <<>>])
        reported == {p \in {all[i].file : i \in 1..Len(all)} : listOf(p) # <<>>}
    IN  [p \in reported |-> listOf(p)]

\* char::to_lowercase on the ASCII letters
ToLowerChar(ch) ==
    IF ch \in DOMAIN CodeOf /\ CodeOf[ch] >= 65 /\ CodeOf[ch] <= 90
    THEN AsciiTable[CodeOf[ch] - 31 + 32] ELSE ch

\* str::to_lowercase
to_lowercase(s) == [i \in 1..Len(s) |-> ToLowerChar(s[i])]

\* slice::sort_by, a stable sort: insertion after the last item not greater
RECURSIVE StableInsert(_, _)
StableInsert(sorted, item) ==
    IF sorted = <<>> THEN <<item>>
    ELSE IF StrLess(to_lowercase(item.label), to_lowercase(Head(sorted).label))
    THEN <<item>> \o sorted
    ELSE <<Head(sorted)>> \o StableInsert(Tail(sorted), item)

RECURSIVE StableSort(_)
StableSort(items) ==
    IF items = <<>> THEN <<>>
    ELSE StableInsert(StableSort(SubSeq(items, 1, Len(items) - 1)),
                      items[Len(items)])

S_slash == <<"/">>

\* init.rs InitDependencyPlugin::completion_items without the sort_by
InitDependencyPlugin_completion_items_unsorted(targets_by_file) ==
    LET all == iter_targets(targets_by_file)
    IN  [i \in 1..Len(all) |->
            CompletionItem(all[i].name, "CONSTANT",
                           all[i].stage_expr \o S_slash \o all[i].scope_expr)]

\* init.rs InitDependencyPlugin::completion_items, the items sorted
InitDependencyPlugin_completion_items(targets_by_file) ==
    LET all == iter_targets(targets_by_file)
    IN  StableSort([i \in 1..Len(all) |->
            CompletionItem(all[i].name, "CONSTANT",
                           all[i].stage_expr \o S_slash \o all[i].scope_expr)])

\* init.rs InitDependencyPlugin::completions
InitDependencyPlugin_completions(targets_by_file, dsk, path, position) ==
    LET canonical == canonicalize_or_self(dsk, path) IN
    IF canonical \notin DOMAIN targets_by_file THEN None
    ELSE LET targets == targets_by_file[canonical]
             in_region == \E i \in 1..Len(targets) :
                 range_contains(targets[i].dependency_region, position)
         IN  IF ~in_region THEN None
             ELSE Some(InitDependencyPlugin_completion_items(targets_by_file))

------------------------------------------------------------------------------
(* Spec: the two indexers driven through State::file_updated and          *)
(* State::file_removed (lsp.rs), over a file system that changes under     *)
(* them.  An error of a plugin is fatal to the process (fatal_parse_error),*)
(* so nothing happens after one.                                          *)

NotCalled == [init |-> "none", hooks |-> "none"]

\* a mutated fatal_parse_error that logs the error and returns
RunningAlways == TRUE

\* fatal_parse_error has not been reached
Running == ret.init # "Err" /\ ret.hooks # "Err"

\* whether the front end yields a translation unit, for each plugin's parse
FrontEnds ==
    {[init |-> "ok", hooks |-> "ok"], [init |-> "null", hooks |-> "ok"],
     [init |-> "ok", hooks |-> "null"]}

\* the `content` of an update: the editor's text, or none for "read the disk"
UpdateContents == {None} \cup {Some(k) : k \in EditorContents}

\* the event being handled: the arguments of State::file_updated or
\* State::file_removed, or a change on disk
Call(op, path, content, fe) ==
    [op |-> op, path |-> path, content |-> content, fe |-> fe]

NoCall == Call("none", <<>>, None, NotCalled)

\* lsp.rs State::new, with no handler running
IdleServer ==
    /\ documents = <<>>
    /\ published_paths = {}
    /\ client = <<>>
    /\ tasks = <<>>

Init ==
    /\ disk \in [RealPaths -> DiskContents \cup {NoFile}]
    /\ hookFiles = <<>>
    /\ targetsByFile = <<>>
    /\ ret = NotCalled
    /\ input = NoCall
    /\ output = Pending
    /\ IdleServer

\* lsp.rs State::file_updated, the `?` after each plugin: the first error ends
\* the loop, r1 and r2 being what the first and the second plugin return
FirstError(hf, r1, r2) ==
    IF r1.ret = "Err"
    THEN [targets |-> r1.files, hooks |-> hf,
          ret |-> [init |-> "Err", hooks |-> "none"]]
    ELSE [targets |-> r1.files, hooks |-> r2.files,
          ret |-> [init |-> "Ok", hooks |-> r2.ret]]

\* lsp.rs State::file_updated over the default plugin list (main.rs: init-deps,
\* then hooks)
file_updated(tf, hf, dsk, path, content, fe) ==
    FirstError(hf,
        InitDependencyPlugin_on_file_updated(tf, dsk, path, content, fe.init),
        HookPlugin_on_file_updated(hf, dsk, path, content, fe.hooks))

\* the three assignments of a file_updated step
Assign(r) ==
    /\ targetsByFile' = r.targets
    /\ hookFiles' = r.hooks
    /\ ret' = r.ret

FileUpdated(path, content, fe) ==
    /\ Running
    /\ Assign(file_updated(targetsByFile, hookFiles, disk, path, content, fe))
    /\ input' = Call("update", path, content, fe)
    /\ UNCHANGED <<disk, output>>
    /\ UNCHANGED server

\* lsp.rs State::file_removed
FileRemoved(path) ==
    /\ Running
    /\ targetsByFile' =
           InitDependencyPlugin_on_file_removed(targetsByFile, disk, path)
    /\ hookFiles' = HookPlugin_on_file_removed(hookFiles, disk, path)
    /\ ret' = NotCalled
    /\ input' = Call("remove", path, None, NotCalled)
    /\ UNCHANGED <<disk, output>>
    /\ UNCHANGED server

\* the environment saves a file
DiskWrite(path, k) ==
    /\ Running
    /\ disk[path] # k
    /\ disk' = [disk EXCEPT ![path] = k]
    /\ ret' = NotCalled
    /\ input' = NoCall
    /\ UNCHANGED <<hookFiles, targetsByFile, output>>
    /\ UNCHANGED server

\* the environment deletes a file
DiskDelete(path) ==
    /\ Running
    /\ disk[path] # NoFile
    /\ disk' = [disk EXCEPT ![path] = NoFile]
    /\ ret' = NotCalled
    /\ input' = NoCall
    /\ UNCHANGED <<hookFiles, targetsByFile, output>>
    /\ UNCHANGED server

Next ==
    \/ \E path \in Paths, content \in UpdateContents, fe \in FrontEnds :
           FileUpdated(path, content, fe)
    \/ \E path \in Paths : FileRemoved(path)
    \/ \E path \in RealPaths, k \in DiskContents : DiskWrite(path, k)
    \/ \E path \in RealPaths : DiskDelete(path)

Spec == Init /\ [][Next]_vars

------------------------------------------------------------------------------
(* SpecSplit: split_macro_args applied to bounded token sequences *)

FOO == <<"F", "O", "O">>
Alphabet == {FOO, LPAREN, RPAREN, COMMA, <<"a">>}

\* FOO(a, (b,c), d) and FOO()
ExampleNested ==
    <<FOO, LPAREN, <<"a">>, COMMA, LPAREN, <<"b">>, COMMA, <<"c">>, RPAREN,
      COMMA, <<"d">>, RPAREN>>
ExampleEmpty == <<FOO, LPAREN, RPAREN>>

SplitInputs == SeqsUpTo(Alphabet, MaxLen) \cup {ExampleNested, ExampleEmpty}

IdleIndex ==
    /\ disk = <<>>
    /\ hookFiles = <<>>
    /\ targetsByFile = <<>>
    /\ ret = NotCalled
    /\ IdleServer

InitSplit ==
    /\ IdleIndex
    /\ input \in SplitInputs
    /\ output = Pending

Split ==
    /\ output = Pending
    /\ output' = Done(split_macro_args(Lay(1, 1, input)))
    /\ UNCHANGED <<disk, hookFiles, targetsByFile, ret, input>>
    /\ UNCHANGED server

NextSplit == Split

SpecSplit == InitSplit /\ [][NextSplit]_vars

------------------------------------------------------------------------------
(* SpecRange: range_contains applied to every range and position of a grid *)

Grid == (0..MaxCoord) \X (0..MaxCoord)

InitRange ==
    /\ IdleIndex
    /\ input \in [range : [start : Grid, end : Grid], pos : Grid]
    /\ output = Pending

Contains ==
    /\ output = Pending
    /\ output' = Done(range_contains(input.range, input.pos))
    /\ UNCHANGED <<disk, hookFiles, targetsByFile, ret, input>>
    /\ UNCHANGED server

NextRange == Contains

SpecRange == InitRange /\ [][NextRange]_vars

------------------------------------------------------------------------------
(* Claims about the pure functions *)

\* the rule of the specification's section 4.4, written out
InsideRule(range, pos) ==
    /\ range.start[1] <= pos[1]
    /\ pos[1] <= range.end[1]
    /\ (pos[1] = range.start[1] => pos[2] >= range.start[2])
    /\ (pos[1] = range.end[1] => pos[2] <= range.end[2])

\* C9: range_contains(range, pos) is true exactly when the position's line is
\* within the range's lines, its character is at or after the start character
\* when it is on the start line, and at or before the end character when it is
\* on the end line (both ends inclusive, both checks on a one-line range).
C9_RangeContainsRule ==
    output # Pending =>
        Result(output) = InsideRule(input.range, input.pos)

\* C9 witness: a one-line range answers true at its end character
C9_Witness ==
    /\ output # Pending
    /\ input.range.start[1] = input.range.end[1]
    /\ input.range.start[2] < input.range.end[2]
    /\ input.pos = input.range.end
    /\ Result(output) = TRUE

\* number of "(" minus number of ")" among texts[2..i]
RECURSIVE ParenDepth(_, _)
ParenDepth(texts, i) ==
    IF i < 2 THEN 0
    ELSE ParenDepth(texts, i - 1)
         + (IF texts[i] = LPAREN THEN 1 ELSE IF texts[i] = RPAREN THEN -1 ELSE 0)

\* index of the ")" matching the "(" at index 2, or 0
MatchingClose(texts) ==
    LET ms == {m \in 3..Len(texts) :
                 /\ ParenDepth(texts, m) = 0
                 /\ \A j \in 2..(m - 1) : ParenDepth(texts, j) >= 1}
    IN  IF ms = {} THEN 0 ELSE CHOOSE m \in ms : TRUE

\* NAME ( ... ) with balanced parentheses
IsMacroCall(texts) ==
    /\ Len(texts) >= 3
    /\ texts[1] \notin {LPAREN, RPAREN, COMMA}
    /\ texts[2] = LPAREN
    /\ MatchingClose(texts) # 0

RECURSIVE SortedSeq(_)
SortedSeq(S) ==
    IF S = {} THEN <<>>
    ELSE LET m == CHOOSE x \in S : \A y \in S : x <= y
         IN  <<m>> \o SortedSeq(S \ {m})

\* the top-level comma-separated groups between the outer parentheses
TopLevelGroups(texts, tokens) ==
    LET close == MatchingClose(texts)
        commas == {i \in 3..(close - 1) :
                     texts[i] = COMMA /\ ParenDepth(texts, i) = 1}
        cuts == SortedSeq({2, close} \cup commas)
    IN  [k \in 1..(Len(cuts) - 1) |->
            SubSeq(tokens, cuts[k] + 1, cuts[k + 1] - 1)]

\* C10: for a token sequence NAME ( ... ) with balanced parentheses,
\* split_macro_args returns exactly the top-level comma-separated groups of the
\* tokens between the outer parentheses, in order, nested parentheses and
\* their commas kept in the group; FOO() yields one empty group.
C10_SplitTopLevelGroups ==
    (output # Pending /\ IsMacroCall(input)) =>
        /\ Result(output)
             = Some(TopLevelGroups(input, Lay(1, 1, input)))
        /\ (input = ExampleEmpty => Result(output) = Some(<< <<>> >>))

\* C10 witness: FOO(a, (b,c), d) has been split into a, (b,c), d
C10_Witness ==
    /\ input = ExampleNested
    /\ output # Pending
    /\ LET groups == Unwrap(Result(output))
       IN  /\ Len(groups) = 3
           /\ Unwrap(tokens_to_string(groups[1])) = <<"a">>
           /\ Unwrap(tokens_to_string(groups[2]))
                = <<"(", "b", ",", "c", ")">>
           /\ Unwrap(tokens_to_string(groups[3])) = <<"d">>

------------------------------------------------------------------------------
(* Claims about the diagnostics of the two indexers *)

\* the union of the Hook Definition names over all indexed files
DefinedHooks ==
    UNION {{hookFiles[f].definitions[i].name :
               i \in 1..Len(hookFiles[f].definitions)} : f \in DOMAIN hookFiles}

\* the Run invocations of file f with a non-empty name nobody defines, in
\* source order
UnresolvedRuns(f) ==
    SortedSeq({i \in 1..Len(hookFiles[f].invocations) :
                 /\ hookFiles[f].invocations[i].kind = "Run"
                 /\ hookFiles[f].invocations[i].name # <<>>
                 /\ hookFiles[f].invocations[i].name \notin DefinedHooks})

\* the error the specification prescribes for one unresolved Run invocation
UnknownHookError(invocation) ==
    [range |-> invocation.name_range, severity |-> "ERROR",
     message |-> S_UnknownHook \o invocation.name \o <<"'">>,
     source |-> S_cronus_hooks]

\* C1: in every reachable state, HookPlugin::diagnostics holds, under each
\* indexed file, exactly one error "Unknown hook '<name>'" at the name_range of
\* each Run invocation of that file whose name is non-empty and defined in no
\* indexed file, and nothing else; a file without such an invocation has no
\* entry, so HOOK(build) with HOOK_RUN(build) gives no diagnostic at all.
C1_HookDiagnosticsExact ==
    LET diag == HookPlugin_diagnostics(hookFiles)
    IN  /\ DOMAIN diag \subseteq DOMAIN hookFiles
        /\ \A f \in DOMAIN hookFiles :
             LET runs == UnresolvedRuns(f)
             IN  /\ (f \in DOMAIN diag) <=> (runs # <<>>)
                 /\ f \in DOMAIN diag =>
                      diag[f] = [k \in 1..Len(runs) |->
                          UnknownHookError(hookFiles[f].invocations[runs[k]])]
        /\ (\A f \in DOMAIN hookFiles : hookFiles[f] = HookCollector["K1"])
              => diag = <<>>

\* C1 witness: only HOOK_RUN( missing ) and HOOK_RUN() are indexed, and the
\* diagnostics are the one error "Unknown hook 'missing'"
C1_Witness ==
    /\ DOMAIN hookFiles = {A_C}
    /\ hookFiles[A_C] = HookCollector["K2"]
    /\ LET diag == HookPlugin_diagnostics(hookFiles)
       IN  /\ DOMAIN diag = {A_C}
           /\ Len(diag[A_C]) = 1
           /\ diag[A_C][1].severity = "ERROR"
           /\ diag[A_C][1].message =
                <<"U", "n", "k", "n", "o", "w", "n", " ", "h", "o", "o", "k",
                  " ", "'", "m", "i", "s", "s", "i", "n", "g", "'">>

\* the names of the Init Targets of all indexed files
DefinedTargets ==
    UNION {{targetsByFile[f][i].name : i \in 1..Len(targetsByFile[f])} :
              f \in DOMAIN targetsByFile}

\* the diagnostics of the given severity under path p, in order
OfSeverity(diag, p, severity) ==
    IF p \notin DOMAIN diag THEN <<>>
    ELSE LET Is(d) == d.severity = severity IN SelectSeq(diag[p], Is)

\* one diagnostic per slot of the targets of file f that satisfies Flagged, in
\* target order and slot order
PerSlot(f, Flagged(_, _), Make(_, _)) ==
    Concat([i \in 1..Len(targetsByFile[f]) |->
        Concat([j \in 1..Len(targetsByFile[f][i].dependency_slots) |->
            IF Flagged(targetsByFile[f][i],
                       targetsByFile[f][i].dependency_slots[j])
            THEN <<Make(targetsByFile[f][i],
                        targetsByFile[f][i].dependency_slots[j])>>
            ELSE <<>>])])

UnknownDependency(target, slot) == slot.name \notin DefinedTargets

UnknownDependencyError(target, slot) ==
    [range |-> slot.range, severity |-> "ERROR",
     message |-> S_UnknownInit \o slot.name \o <<"'">>,
     source |-> S_cronus_init]

\* C2: in every reachable state, the errors of InitDependencyPlugin::diagnostics
\* under each file are exactly one "Unknown init dependency '<name>'" at the
\* slot's range for each slot of each target of that file whose name is the
\* name of no indexed target; a slot naming an indexed target, the target
\* itself included, gets no error.
C2_UnknownDependencyErrors ==
    LET diag == InitDependencyPlugin_diagnostics(targetsByFile)
    IN  /\ DOMAIN diag \subseteq DOMAIN targetsByFile
        /\ \A f \in DOMAIN targetsByFile :
             /\ \A i \in 1..Len(targetsByFile[f]) : targetsByFile[f][i].file = f
             /\ OfSeverity(diag, f, "ERROR")
                  = PerSlot(f, UnknownDependency, UnknownDependencyError)

\* C2 witness: INIT_TARGET(u,S,C,D("u","x")) is indexed with no target x: one
\* error, for x, and none for the target's dependency on itself
C2_Witness ==
    /\ DOMAIN targetsByFile = {A_C}
    /\ targetsByFile[A_C] = TargetCollector[A_C]["K3"]
    /\ LET errors == OfSeverity(InitDependencyPlugin_diagnostics(targetsByFile),
                                A_C, "ERROR")
       IN  /\ Len(errors) = 1
           /\ errors[1].message =
                S_UnknownInit \o <<"x", "'">>
           /\ errors[1].range = targetsByFile[A_C][1].dependency_slots[2].range

DuplicateDependency(target, slot) ==
    Cardinality({j \in 1..Len(target.dependency_slots) :
                    target.dependency_slots[j].name = slot.name}) > 1

DuplicateDependencyWarning(target, slot) ==
    [range |-> slot.range, severity |-> "WARNING",
     message |-> S_Duplicate \o slot.name \o S_in \o target.name,
     source |-> S_cronus_init]

\* C3: the duplicate check does not depend on the unknown check: under each
\* file, the warnings are exactly one "Duplicate dependency '<name>' in
\* <target>" at the slot's range for each slot whose name the same target
\* lists more than once, whether or not the name is a known target; the
\* dependency list "a", "a" with no target a gives 2 errors and 2 warnings.
C3_DuplicateIndependentOfUnknown ==
    LET diag == InitDependencyPlugin_diagnostics(targetsByFile)
    IN  \A f \in DOMAIN targetsByFile :
            OfSeverity(diag, f, "WARNING")
              = PerSlot(f, DuplicateDependency, DuplicateDependencyWarning)

------------------------------------------------------------------------------
(* Claims about update and remove *)

\* the positions a completion request is made at
Positions == {Position(l, c) : l \in 0..MaxLine, c \in 0..MaxCol}

\* C4: for every indexed file F, after remove(F), also when the file no longer
\* exists on disk, neither indexer keeps anything of F: completions(F, P) is
\* none at every position, diagnostics() has no entry for F, and the known
\* names are those of the other files; remove of a never-indexed file changes
\* nothing.
C4_RemoveForgetsFile ==
    [][input'.op = "remove" =>
        LET path == input'.path
        IN  /\ path \notin DOMAIN hookFiles'
            /\ path \notin DOMAIN targetsByFile'
            /\ path \notin DOMAIN HookPlugin_diagnostics(hookFiles')
            /\ path \notin
                 DOMAIN InitDependencyPlugin_diagnostics(targetsByFile')
            /\ \A pos \in Positions :
                 /\ HookPlugin_completions(hookFiles', disk', path, pos) = None
                 /\ InitDependencyPlugin_completions(targetsByFile', disk',
                                                     path, pos) = None
            /\ HookDefinitionNames(hookFiles')
                 = HookDefinitionNames(
                       [g \in DOMAIN hookFiles \ {path} |-> hookFiles[g]])
            /\ InitTargetNames(targetsByFile')
                 = InitTargetNames(
                       [g \in DOMAIN targetsByFile \ {path} |->
                           targetsByFile[g]])
            /\ (path \notin DOMAIN hookFiles => hookFiles' = hookFiles)
            /\ (path \notin DOMAIN targetsByFile =>
                   targetsByFile' = targetsByFile)
    ]_vars

HasNul(s) == \E i \in 1..Len(s) : s[i] = NUL

\* the causes of failure the specification lists: the front end yields no
\* translation unit, or the path, a flag or the content cannot be encoded
MustFail(path, content, fe) ==
    LET key == canonicalize_or_self(disk, path)
        flags == args_for(disk, key)
    IN  \/ fe # "ok"
        \/ HasNul(key)
        \/ \E i \in 1..Len(flags) : HasNul(flags[i])
        \/ content # None /\ Contents[Unwrap(content)].nul

\* C5: when update(F, content) fails on an indexer, the update returns an
\* error and the indexer's entities, for F and for every other file, are what
\* they were before the call; the indexer after the failing one is not called.
C5_FailedUpdateKeepsEntities ==
    [][(input'.op = "update" /\ extension(input'.path) = Some(<<"c">>)) =>
        /\ MustFail(input'.path, input'.content, input'.fe.init)
              => ret'.init = "Err"
        /\ (ret'.init = "Ok"
              /\ MustFail(input'.path, input'.content, input'.fe.hooks))
              => ret'.hooks = "Err"
        /\ ret'.init = "Err" =>
              targetsByFile' = targetsByFile /\ hookFiles' = hookFiles
        /\ ret'.hooks = "Err" => hookFiles' = hookFiles
    ]_vars

\* C5 witness: update(a.c) has failed in the hook indexer, which still holds
\* the entities of the file's previous text, while the init indexer, called
\* first, holds those of the new text
C5_Witness ==
    /\ input.op = "update" /\ input.path = A_C
    /\ ret = [init |-> "Ok", hooks |-> "Err"]
    /\ DOMAIN hookFiles = {A_C}
    /\ hookFiles[A_C] = HookCollector["K1"]
    /\ targetsByFile[A_C] = TargetCollector[A_C]["K2"]

\* the text a successful update has parsed
ParsedText(path, content) ==
    IF content # None THEN Unwrap(content)
    ELSE disk[canonicalize_or_self(disk, path)]

\* map `after` is map `before` with the value of key replaced
Replaced(before, after, key, value) ==
    /\ DOMAIN after = DOMAIN before \cup {key}
    /\ after[key] = value
    /\ \A g \in DOMAIN before \ {key} : after[g] = before[g]

\* C6: after a successful update(F, content) on an indexer, F's entities are
\* exactly those extracted from this parse, nothing of F's previous version
\* being kept or merged, and the entities of every other file are unchanged.
C6_UpdateReplacesFile ==
    [][(input'.op = "update" /\ extension(input'.path) = Some(<<"c">>)) =>
        LET key == canonicalize_or_self(disk, input'.path)
            text == ParsedText(input'.path, input'.content)
        IN  /\ ret'.init = "Ok" =>
                 Replaced(targetsByFile, targetsByFile', key,
                          TargetCollector[key][text])
            /\ ret'.hooks = "Ok" =>
                 Replaced(hookFiles, hookFiles', key, HookCollector[text])
    ]_vars

\* C6 witness: a.c, indexed with HOOK(build), has been updated with a text
\* that defines no hook and holds none of its old entities; b.c is as before
C6_Witness ==
    /\ input = Call("update", A_C, Some("K2"), [init |-> "ok", hooks |-> "ok"])
    /\ ret = [init |-> "Ok", hooks |-> "Ok"]
    /\ DOMAIN hookFiles = {A_C, B_C}
    /\ hookFiles[A_C] = HookCollector["K2"]
    /\ hookFiles[A_C].definitions = <<>>
    /\ hookFiles[B_C] = HookCollector["K1"]
    /\ targetsByFile[A_C] = TargetCollector[A_C]["K2"]

------------------------------------------------------------------------------
(* Claims about the hook completions *)

\* the file a request for `path` is answered from has indexed data
Indexed(path) == canonicalize_or_self(disk, path) \in DOMAIN hookFiles

\* pos is inside the argument_region of some invocation of the file, by the
\* containment rule of section 4.4
InsideSomeRegion(path, pos) ==
    LET data == hookFiles[canonicalize_or_self(disk, path)]
    IN  \E i \in 1..Len(data.invocations) :
            InsideRule(data.invocations[i].argument_region, pos)

\* C7, as claimed: for every indexed file, hook completions at a position
\* inside some invocation's argument_region are neither none nor an empty
\* list, and at a position outside every argument_region they are none.
C7_InsideNonEmptyOutsideNone ==
    \A path \in Paths : Indexed(path) =>
        \A pos \in Positions :
            LET items == HookPlugin_completions(hookFiles, disk, path, pos)
            IN  IF InsideSomeRegion(path, pos)
                THEN items # None /\ items # Some(<<>>)
                ELSE items = None

\* C7, amended: for every indexed file, hook completions at a position
\* inside some invocation's argument_region are a list, which is empty exactly
\* when no indexed file defines a hook, and at a position outside every
\* argument_region they are none.
C7_InsideListOutsideNone ==
    \A path \in Paths : Indexed(path) =>
        \A pos \in Positions :
            LET items == HookPlugin_completions(hookFiles, disk, path, pos)
            IN  IF InsideSomeRegion(path, pos)
                THEN /\ items # None
                     /\ (items = Some(<<>>)) <=> (DefinedHooks = {})
                ELSE items = None

\* C7 witness: only HOOK_RUN( missing ) and HOOK_RUN() are indexed; inside the
\* parentheses of the first, before the name, the completions are the empty
\* list, and on the macro's name they are none
C7_Witness ==
    /\ DOMAIN hookFiles = {A_C}
    /\ hookFiles[A_C] = HookCollector["K2"]
    /\ Position(0, 9) \in Positions /\ Position(0, 8) \in Positions
    /\ InsideSomeRegion(A_C, Position(0, 9))
    /\ HookPlugin_completions(hookFiles, disk, A_C, Position(0, 9)) = Some(<<>>)
    /\ ~InsideSomeRegion(A_C, Position(0, 8))
    /\ HookPlugin_completions(hookFiles, disk, A_C, Position(0, 8)) = None

\* C8: whenever hook completions return a list, its labels are the Hook
\* Definition names of all indexed files, each once, in ascending order, each
\* item with detail "hook"; and they are none, at every position, when the
\* file has no indexed data.
C8_CompletionLabels ==
    \A path \in Paths : \A pos \in Positions :
        LET items == HookPlugin_completions(hookFiles, disk, path, pos)
        IN  /\ ~Indexed(path) => items = None
            /\ items # None =>
                 LET list == Unwrap(items)
                 IN  /\ {list[i].label : i \in 1..Len(list)} = DefinedHooks
                     /\ \A i \in 1..(Len(list) - 1) :
                          StrLess(list[i].label, list[i + 1].label)
                     /\ \A i \in 1..Len(list) :
                          list[i].detail = <<"h", "o", "o", "k">>

\* C8 witness: a.c holds HOOK(build) and b.c two HOOK(missing); the completions
\* inside HOOK(build) of a.c are build, then missing
C8_Witness ==
    /\ DOMAIN hookFiles = {A_C, B_C}
    /\ hookFiles[A_C] = HookCollector["K1"]
    /\ hookFiles[B_C] = HookCollector["K3"]
    /\ LET items == HookPlugin_completions(hookFiles, disk, A_C, Position(0, 5))
       IN  /\ items # None
           /\ Len(Unwrap(items)) = 2
           /\ Unwrap(items)[1].label = S_build
           /\ Unwrap(items)[2].label = S_missing

------------------------------------------------------------------------------
(* The coordinator (lsp.rs): event handlers running as concurrent tasks.   *)
(* A step is one scoped acquisition of the state lock, or one message to   *)
(* the editor; a handler may be overtaken between two of its steps.        *)

\* the handlers that can run at the same time
Tasks == {"t1", "t2"}
\* the texts the editor sends
Texts == {"K1", "K2"}
\* the files the editor's events name
UriPaths == {A_C, B_C}
\* FileChangeType, CREATED being handled as CHANGED is
ChangeTypes == {"CHANGED", "DELETED"}
FileEvent(typ, path) == [typ |-> typ, path |-> path]
FileEvents == {FileEvent(typ, path) : typ \in ChangeTypes, path \in UriPaths}

\* a mutated turn of the loop: all.insert(path, diagnostics), the list of a
\* later plugin taking the place of an earlier one's
ExtendAllOverwrite(all, reported) ==
    [p \in DOMAIN all \cup DOMAIN reported |->
        IF p \in DOMAIN reported THEN reported[p] ELSE all[p]]

\* lsp.rs State::diagnostics, one turn of the inner loop over a plugin's map:
\* all.entry(path).or_default().extend(diagnostics)
ExtendAll(all, reported) ==
    [p \in DOMAIN all \cup DOMAIN reported |->
        (IF p \in DOMAIN all THEN all[p] ELSE <<>>)
        \o (IF p \in DOMAIN reported THEN reported[p] ELSE <<>>)]

\* lsp.rs State::diagnostics over the default plugin list
State_diagnostics(tf, hf) ==
    ExtendAll(ExtendAll(<<>>, InitDependencyPlugin_diagnostics(tf)),
              HookPlugin_diagnostics(hf))

\* a handler's position: where it is, whether it owns the MutexGuard of the
\* state, the arguments of its next call, and the locals of
\* publish_all_diagnostics
Idle ==
    [pc |-> "idle", guard |-> FALSE, kind |-> "none", path |-> <<>>,
     content |-> None, batch |-> <<>>, diagnostics |-> <<>>, stale |-> {},
     current |-> {}, sent |-> <<>>]

\* a handler that has a reindex to do
Reindexing(kind, path, content) ==
    [Idle EXCEPT !.pc = "reindex", !.kind = kind, !.path = path,
                 !.content = content]

\* a handler with a batch of watched-file changes to go through
Batching(batch) ==
    [Idle EXCEPT !.pc = IF batch = <<>> THEN "round" ELSE "batch",
                 !.kind = "watched", !.batch = batch]

\* an error has come back from a plugin
Failed(r) == r.init = "Err" \/ r.hooks = "Err"

\* task t can take an event: fewer than limit handlers run, and t is the
\* first of the idle tasks (which idle task takes the event makes no
\* difference)
Free(t, limit) ==
    /\ Running
    /\ tasks[t].pc = "idle"
    /\ Cardinality({u \in Tasks : tasks[u].pc # "idle"}) < limit
    /\ t = "t1" \/ tasks["t1"].pc # "idle"

InitServer ==
    /\ disk \in [RealPaths -> {"K2", NoFile}]
    /\ hookFiles = <<>>
    /\ targetsByFile = <<>>
    /\ ret = NotCalled
    /\ input = NoCall
    /\ output = Pending
    /\ documents = <<>>
    /\ published_paths = {}
    /\ client = <<>>
    /\ tasks = [t \in Tasks |-> Idle]

\* lsp.rs did_open, up to the first release of the lock
DidOpen(t, limit, path, text) ==
    /\ Free(t, limit)
    /\ documents' = MapInsert(documents, path, text)
    /\ tasks' = [tasks EXCEPT ![t] = Reindexing("open", path, Some(text))]
    /\ UNCHANGED <<disk, hookFiles, targetsByFile, ret, input, output,
                   published_paths, client>>

\* a mutated did_change that takes the first content change as the text
DidChangeFirst(t, limit, path, content_changes) ==
    /\ Free(t, limit)
    /\ IF content_changes = <<>>
       THEN UNCHANGED <<documents, tasks>>
       ELSE /\ documents' = MapInsert(documents, path, content_changes[1])
            /\ tasks' = [tasks EXCEPT ![t] =
                   Reindexing("change", path, Some(content_changes[1]))]
    /\ UNCHANGED <<disk, hookFiles, targetsByFile, ret, input, output,
                   published_paths, client>>

\* lsp.rs did_change, up to the first release of the lock: the last content
\* change is the text; without one the handler does nothing
DidChange(t, limit, path, content_changes) ==
    /\ Free(t, limit)
    /\ IF content_changes = <<>>
       THEN UNCHANGED <<documents, tasks>>
       ELSE /\ documents' = MapInsert(documents, path,
                                      content_changes[Len(content_changes)])
            /\ tasks' = [tasks EXCEPT ![t] =
                   Reindexing("change", path,
                              Some(content_changes[Len(content_changes)]))]
    /\ UNCHANGED <<disk, hookFiles, targetsByFile, ret, input, output,
                   published_paths, client>>

\* lsp.rs did_close, up to the first release of the lock
DidClose(t, limit, path) ==
    /\ Free(t, limit)
    /\ documents' = MapRemove(documents, path)
    /\ tasks' = [tasks EXCEPT ![t] = Reindexing("close", path, None)]
    /\ UNCHANGED <<disk, hookFiles, targetsByFile, ret, input, output,
                   published_paths, client>>

\* the guard is dropped at the end of reindex and the handler goes on to
\* publish_all_diagnostics, unless fatal_parse_error has ended the process
AfterReindex(t, r) ==
    /\ Assign(r)
    /\ tasks' = IF Failed(r.ret) THEN tasks
                ELSE [tasks EXCEPT ![t].pc = "round", ![t].guard = FALSE]

\* a mutated reindex that leaves the text out: update(path, None) always
ReindexFromDisk(t, fe) ==
    /\ Running
    /\ tasks[t].pc = "reindex"
    /\ AfterReindex(t, file_updated(targetsByFile, hookFiles, disk,
                                    tasks[t].path, None, fe))
    /\ input' = Call("update", tasks[t].path, None, fe)
    /\ UNCHANGED <<disk, output, documents, published_paths, client>>

\* lsp.rs reindex, called by did_open, did_change and did_close
Reindex(t, fe) ==
    /\ Running
    /\ tasks[t].pc = "reindex"
    /\ AfterReindex(t, file_updated(targetsByFile, hookFiles, disk,
                                    tasks[t].path, tasks[t].content, fe))
    /\ input' = Call("update", tasks[t].path, tasks[t].content, fe)
    /\ UNCHANGED <<disk, output, documents, published_paths, client>>

\* lsp.rs did_change_watched_files, on arrival
DidChangeWatchedFiles(t, limit, changes) ==
    /\ Free(t, limit)
    /\ tasks' = [tasks EXCEPT ![t] = Batching(changes)]
    /\ UNCHANGED <<disk, hookFiles, targetsByFile, ret, input, output,
                   documents, published_paths, client>>

\* the guard is dropped at the end of the block; the next change of the
\* batch, or publish_all_diagnostics after the last
AfterChange(t) ==
    [tasks EXCEPT ![t].guard = FALSE,
                  ![t].batch = Tail(@),
                  ![t].pc = IF Tail(tasks[t].batch) = <<>> THEN "round"
                            ELSE "batch"]

\* lsp.rs did_change_watched_files, the arm of the other change types
WatchedUpdate(t, path, fe, r) ==
    /\ Assign(r)
    /\ input' = Call("update", path, None, fe)
    /\ tasks' = IF Failed(r.ret) THEN tasks ELSE AfterChange(t)

\* a mutated DELETED arm that re-parses the path like the other arm does
WatchedRemoveReparse(t, path) ==
    WatchedUpdate(t, path, [init |-> "ok", hooks |-> "ok"],
        file_updated(targetsByFile, hookFiles, disk, path, None,
                     [init |-> "ok", hooks |-> "ok"]))

\* lsp.rs did_change_watched_files, the DELETED arm
WatchedRemove(t, path) ==
    /\ targetsByFile' =
           InitDependencyPlugin_on_file_removed(targetsByFile, disk, path)
    /\ hookFiles' = HookPlugin_on_file_removed(hookFiles, disk, path)
    /\ ret' = NotCalled
    /\ input' = Call("remove", path, None, NotCalled)
    /\ tasks' = AfterChange(t)

\* lsp.rs did_change_watched_files, one turn of the loop over the changes
WatchedChange(t, fe) ==
    /\ Running
    /\ tasks[t].pc = "batch"
    /\ IF Head(tasks[t].batch).typ = "DELETED"
       THEN WatchedRemove(t, Head(tasks[t].batch).path)
       ELSE WatchedUpdate(t, Head(tasks[t].batch).path, fe,
                file_updated(targetsByFile, hookFiles, disk,
                             Head(tasks[t].batch).path, None, fe))
    /\ UNCHANGED <<disk, output, documents, published_paths, client>>

\* the result of the startup walk: the index, what the last call returned, and
\* the entries the walk has not reached
Walked(r, rest) ==
    [targets |-> r.targets, hooks |-> r.hooks, ret |-> r.ret, rest |-> rest]

\* lsp.rs initialized, the loop over the entries of the project tree, the lock
\* being held throughout: the first error ends the process
RECURSIVE Walk(_, _, _, _, _)
WalkOn(r, dsk, rest, fes) ==
    IF Failed(r.ret) \/ rest = <<>> THEN Walked(r, rest)
    ELSE Walk(r.targets, r.hooks, dsk, rest, fes)

Walk(tf, hf, dsk, entries, fes) ==
    WalkOn(file_updated(tf, hf, dsk, Head(entries), None, fes[Head(entries)]),
           dsk, Tail(entries), fes)

\* the entries of the project tree, in one of the orders WalkDir can yield
WalkOrders(dsk) ==
    {order \in SeqsUpTo(RealPaths, Cardinality(RealPaths)) :
        /\ \A i, j \in 1..Len(order) : i # j => order[i] # order[j]
        /\ {order[i] : i \in 1..Len(order)}
             = {path \in RealPaths : dsk[path] # NoFile}}

AfterWalk(t, w) ==
    /\ targetsByFile' = w.targets
    /\ hookFiles' = w.hooks
    /\ ret' = w.ret
    /\ tasks' = [tasks EXCEPT ![t] =
           [Idle EXCEPT !.pc = IF Failed(w.ret) THEN "walk" ELSE "round",
                        !.kind = "initialized", !.batch = w.rest]]

\* lsp.rs initialized: the first event of a session
Initialized(t, limit, order, fes) ==
    /\ Free(t, limit)
    /\ input = NoCall
    /\ order # <<>>
    /\ AfterWalk(t, Walk(targetsByFile, hookFiles, disk, order, fes))
    /\ input' = Call("walk", Head(order), None, fes[Head(order)])
    /\ UNCHANGED <<disk, output, documents, published_paths, client>>

\* publish_all_diagnostics with the stale set left empty: nothing is retracted
SnapshotWithoutStale(t, diagnostics) ==
    [tasks EXCEPT ![t].pc = "publish",
                  ![t].guard = FALSE,
                  ![t].diagnostics = diagnostics,
                  ![t].current = DOMAIN diagnostics,
                  ![t].stale = {}]

\* lsp.rs publish_all_diagnostics, the first scoped lock: the diagnostics and
\* the published paths are copied, current_paths and stale follow from them,
\* and the guard is dropped at the end of the block
Snapshot(t, diagnostics) ==
    [tasks EXCEPT ![t].pc = "publish",
                  ![t].guard = FALSE,
                  ![t].diagnostics = diagnostics,
                  ![t].current = DOMAIN diagnostics,
                  ![t].stale = published_paths \ DOMAIN diagnostics]

\* a mutated publish_all_diagnostics whose first guard lives on to the end of
\* the function instead of the end of the block
RoundHoldingGuard(t) ==
    /\ Running
    /\ tasks[t].pc = "round"
    /\ tasks' = [Snapshot(t, State_diagnostics(targetsByFile, hookFiles))
                     EXCEPT ![t].guard = tasks[t].guard]
    /\ UNCHANGED <<disk, hookFiles, targetsByFile, ret, input, output,
                   documents, published_paths, client>>

\* lsp.rs publish_all_diagnostics, the block that takes the snapshot
Round(t) ==
    /\ Running
    /\ tasks[t].pc = "round"
    /\ tasks' = Snapshot(t, State_diagnostics(targetsByFile, hookFiles))
    /\ UNCHANGED <<disk, hookFiles, targetsByFile, ret, input, output,
                   documents, published_paths, client>>

\* lsp.rs publish_all_diagnostics, one turn of the loop over the diagnostics
Publish(t, path) ==
    /\ Running
    /\ tasks[t].pc = "publish"
    /\ path \in DOMAIN tasks[t].diagnostics
    /\ client' = MapInsert(client, path, tasks[t].diagnostics[path])
    /\ tasks' = [tasks EXCEPT
           ![t].diagnostics = MapRemove(@, path),
           ![t].sent = MapInsert(@, path, tasks[t].diagnostics[path])]
    /\ UNCHANGED <<disk, hookFiles, targetsByFile, ret, input, output,
                   documents, published_paths>>

\* lsp.rs publish_all_diagnostics, one turn of the loop over stale
Retract(t, path) ==
    /\ Running
    /\ tasks[t].pc = "publish"
    /\ tasks[t].diagnostics = <<>>
    /\ path \in tasks[t].stale
    /\ client' = MapInsert(client, path, <<>>)
    /\ tasks' = [tasks EXCEPT ![t].stale = @ \ {path},
                              ![t].sent = MapInsert(@, path, <<>>)]
    /\ UNCHANGED <<disk, hookFiles, targetsByFile, ret, input, output,
                   documents, published_paths>>

\* lsp.rs publish_all_diagnostics, the last line; the handler returns
Commit(t) ==
    /\ Running
    /\ tasks[t].pc = "publish"
    /\ tasks[t].diagnostics = <<>>
    /\ tasks[t].stale = {}
    /\ published_paths' = tasks[t].current
    /\ tasks' = [tasks EXCEPT ![t] = Idle]
    /\ UNCHANGED <<disk, hookFiles, targetsByFile, ret, input, output,
                   documents, client>>

\* the handlers, at most limit of them running at a time, for events that
\* name the files in uris
NextServer(limit, uris) ==
    \/ \E t \in Tasks, path \in uris, text \in Texts :
           DidOpen(t, limit, path, text)
    \/ \E t \in Tasks, path \in uris,
          content_changes \in SeqsUpTo(Texts, MaxChanges) :
           DidChange(t, limit, path, content_changes)
    \/ \E t \in Tasks, path \in uris : DidClose(t, limit, path)
    \/ \E t \in Tasks,
          changes \in SeqsUpTo({e \in FileEvents : e.path \in uris},
                               MaxBatch) :
           DidChangeWatchedFiles(t, limit, changes)
    \/ \E t \in Tasks, order \in WalkOrders(disk),
          fes \in [RealPaths -> FrontEnds] :
           Initialized(t, limit, order, fes)
    \/ \E t \in Tasks, fe \in FrontEnds : Reindex(t, fe)
    \/ \E t \in Tasks, fe \in FrontEnds : WatchedChange(t, fe)
    \/ \E t \in Tasks : Round(t)
    \/ \E t \in Tasks, path \in RealPaths \cup {L_C} : Publish(t, path)
    \/ \E t \in Tasks, path \in RealPaths \cup {L_C} : Retract(t, path)
    \/ \E t \in Tasks : Commit(t)

\* SpecRounds: one handler at a time, so that publish rounds do not overlap
NextRounds == NextServer(1, UriPaths)
SpecRounds == InitServer /\ [][NextRounds]_vars

\* SpecEdits: did_open and did_change handlers for one file, running
\* concurrently
NextEdits ==
    \/ \E t \in Tasks, text \in Texts : DidOpen(t, 2, A_C, text)
    \/ \E t \in Tasks, content_changes \in SeqsUpTo(Texts, MaxChanges) :
           DidChange(t, 2, A_C, content_changes)
    \/ \E t \in Tasks, fe \in FrontEnds : Reindex(t, fe)
    \/ \E t \in Tasks : Round(t)
    \/ \E t \in Tasks, path \in RealPaths \cup {L_C} : Publish(t, path)
    \/ \E t \in Tasks, path \in RealPaths \cup {L_C} : Retract(t, path)
    \/ \E t \in Tasks : Commit(t)

SpecEdits == InitServer /\ [][NextEdits]_vars

------------------------------------------------------------------------------
(* Claims about the coordinator *)

\* what a round has to send for the diagnostics D when the paths in
\* published were published before: every list of D, and an empty list for
\* each path of published that D has no list for
RoundMessages(D, published) ==
    [p \in DOMAIN D \cup published |-> IF p \in DOMAIN D THEN D[p] ELSE <<>>]

\* C11: when publish rounds do not overlap, a round that completes has sent
\* exactly the current diagnostics list of every file that has one and an
\* empty list for every file of the previously published set that has none
\* now (so a file with diagnostics in one round and none in the next is sent
\* an empty list in that next round, and nothing in the round after it); the
\* editor holds what was sent, and the published set becomes the set of files
\* with diagnostics in this round
C11_RoundPublishesAndRetracts ==
    [][\A t \in Tasks :
         (tasks[t].pc = "publish" /\ tasks'[t].pc = "idle") =>
           LET D == State_diagnostics(targetsByFile, hookFiles)
           IN  /\ tasks[t].sent = RoundMessages(D, published_paths)
               /\ \A p \in DOMAIN tasks[t].sent : client[p] = tasks[t].sent[p]
               /\ published_paths' = DOMAIN D]_vars

\* C11 witness: a.c had diagnostics in an earlier round and has none now; the
\* last round has sent it an empty list and dropped it from the published set
C11_Witness ==
    /\ \A t \in Tasks : tasks[t].pc = "idle"
    /\ A_C \in DOMAIN client
    /\ client[A_C] = <<>>
    /\ A_C \notin published_paths
    /\ A_C \notin DOMAIN State_diagnostics(targetsByFile, hookFiles)

\* no handler is running and none has ended the process
Quiescent == Running /\ \A t \in Tasks : tasks[t].pc = "idle"

\* C12: whatever the interleaving of concurrent open and change handlers for
\* one file, once all of them have finished the entities indexed for the file
\* in every plugin are those parsed from the stored document text, which is
\* the text of the newest edit
C12_LastWriterWins ==
    (Quiescent /\ A_C \in DOMAIN documents) =>
        /\ A_C \in DOMAIN hookFiles
        /\ hookFiles[A_C] = HookCollector[documents[A_C]]
        /\ A_C \in DOMAIN targetsByFile
        /\ targetsByFile[A_C] = TargetCollector[A_C][documents[A_C]]

\* C13: whatever the interleaving of concurrent handlers, once all of them
\* have finished every file whose most recent publish to the editor was a
\* non-empty list is in the tracked published set
C13_MarkedFilesAreTracked ==
    Quiescent =>
        \A p \in DOMAIN client : client[p] # <<>> => p \in published_paths

------------------------------------------------------------------------------
(* Claims about re-indexing (Spec) *)

\* the call recorded in `input` was an update that both plugins accepted
UpdateSucceeded(call, r) ==
    call.op = "update" /\ r.init = "Ok" /\ r.hooks = "Ok"

\* C14: re-indexing is deterministic and idempotent: after a successful
\* update of a source file, the file's entities in both plugins are those the
\* same call leaves in an empty index, whatever the file and the other files
\* held before; and the same call made twice in a row changes nothing the
\* second time
C14_ReindexDeterministic ==
    [][(UpdateSucceeded(input', ret')
          /\ extension(input'.path) = Some(<<"c">>)) =>
        LET key == canonicalize_or_self(disk, input'.path)
            fresh == file_updated(<<>>, <<>>, disk, input'.path,
                                  input'.content, input'.fe)
        IN  /\ hookFiles'[key] = fresh.hooks[key]
            /\ targetsByFile'[key] = fresh.targets[key]
            /\ (input = input' /\ ret = ret') =>
                   (hookFiles' = hookFiles /\ targetsByFile' = targetsByFile)
    ]_vars

\* C14 witness: b.c has been updated with the text K3 in an index that
\* already held other entities for b.c's neighbour a.c
C14_Witness ==
    /\ UpdateSucceeded(input, ret)
    /\ input.path = B_C
    /\ input.content = Some("K3")
    /\ A_C \in DOMAIN hookFiles
    /\ hookFiles[A_C] = HookCollector["K1"]
    /\ hookFiles[B_C] = HookCollector["K3"]
    /\ targetsByFile[B_C] = TargetCollector[B_C]["K3"]

------------------------------------------------------------------------------
(* Claims about the handlers, one at a time (SpecRounds) *)

\* C15: an error of a plugin's update, in whatever handler, ends the process
\* there: the step that gets the error publishes nothing and leaves its
\* handler short of publish_all_diagnostics, with the rest of its batch or of
\* the startup walk unprocessed, and no step of any handler follows
C15_ErrorEndsProcess ==
    [][/\ ~Failed(ret)
       /\ Failed(ret') =>
            /\ client' = client
            /\ published_paths' = published_paths
            /\ documents' = documents
            /\ \A t \in Tasks :
                 /\ tasks'[t].pc \in {"idle", "reindex", "batch", "walk"}
                 /\ tasks[t].pc # "idle" => tasks'[t] = tasks[t]]_vars

\* C15 witness: the first change of a watched-files batch of two has failed;
\* the handler is still at it, the second change untouched, nothing published
C15_Witness ==
    /\ Failed(ret)
    /\ \E t \in Tasks : tasks[t].pc = "batch" /\ Len(tasks[t].batch) = 2
    /\ client = <<>>

------------------------------------------------------------------------------
(* SpecFilter: the indexers over a project that holds a header n.h, a      *)
(* source file a.c, and a link m.c to the header                           *)

FilterPaths == {A_C, N_H, M_C}
FilterFiles == {A_C, N_H}
FilterContents == {None, Some("K1"), Some("K2")}

InitFilter ==
    /\ disk \in {d \in [RealPaths \cup {N_H} -> DiskContents \cup {NoFile}] :
                    d[B_C] = NoFile}
    /\ hookFiles = <<>>
    /\ targetsByFile = <<>>
    /\ ret = NotCalled
    /\ input = NoCall
    /\ output = Pending
    /\ IdleServer

NextFilter ==
    \/ \E path \in FilterPaths, content \in FilterContents, fe \in FrontEnds :
           FileUpdated(path, content, fe)
    \/ \E path \in FilterPaths : FileRemoved(path)
    \/ \E path \in FilterFiles, k \in DiskContents : DiskWrite(path, k)
    \/ \E path \in FilterFiles : DiskDelete(path)

SpecFilter == InitFilter /\ [][NextFilter]_vars

\* the file has no entities in either plugin, no diagnostics, and no
\* completions at any position
Ignored(path) ==
    /\ path \notin DOMAIN hookFiles
    /\ path \notin DOMAIN targetsByFile
    /\ path \notin DOMAIN State_diagnostics(targetsByFile, hookFiles)
    /\ \A position \in Positions :
         /\ HookPlugin_completions(hookFiles, disk, path, position) = None
         /\ InitDependencyPlugin_completions(targetsByFile, disk, path,
                                             position) = None

\* C16: an update of a file whose extension is not "c" succeeds in both
\* plugins and leaves the whole index unchanged, so that a file without the
\* source extension never has entities, completions or diagnostics
C16_NonSourceIgnored ==
    [][/\ (input'.op = "update" /\ extension(input'.path) # Some(<<"c">>)) =>
            /\ ret' = [init |-> "Ok", hooks |-> "Ok"]
            /\ hookFiles' = hookFiles
            /\ targetsByFile' = targetsByFile
       /\ Ignored(N_H)']_vars

\* the part of C16 about the update itself
C16_UpdateIsNoOp ==
    [][(input'.op = "update" /\ extension(input'.path) # Some(<<"c">>)) =>
            /\ ret' = [init |-> "Ok", hooks |-> "Ok"]
            /\ hookFiles' = hookFiles
            /\ targetsByFile' = targetsByFile]_vars

\* C17: the changes of a watched-files notification are taken in the order
\* listed, one per step: a DELETED change calls remove(path) on every plugin
\* and parses nothing, any other change calls update(path, None) on every
\* plugin; nothing is published while changes remain, and the diagnostics
\* round starts after the last change
C17_WatchedFilesInOrder ==
    [][\A t \in Tasks : tasks[t].pc = "batch" =>
         LET change == Head(tasks[t].batch)
             updated == file_updated(targetsByFile, hookFiles, disk,
                                     change.path, None, input'.fe)
         IN  /\ IF change.typ = "DELETED"
                THEN /\ input' = Call("remove", change.path, None, NotCalled)
                     /\ ret' = NotCalled
                     /\ hookFiles' =
                          HookPlugin_on_file_removed(hookFiles, disk,
                                                     change.path)
                     /\ targetsByFile' =
                          InitDependencyPlugin_on_file_removed(
                              targetsByFile, disk, change.path)
                ELSE /\ input' = Call("update", change.path, None, input'.fe)
                     /\ ret' = updated.ret
                     /\ hookFiles' = updated.hooks
                     /\ targetsByFile' = updated.targets
             /\ client' = client
             /\ published_paths' = published_paths
             /\ ~Failed(ret') =>
                  /\ tasks'[t].batch = Tail(tasks[t].batch)
                  /\ tasks'[t].pc = IF Len(tasks[t].batch) = 1 THEN "round"
                                    ELSE "batch"]_vars

\* C17 witness: of a batch of two changes, the first, a DELETED one for a file
\* that was indexed, has been handled by remove: the file is gone from the
\* index, the second change is still to come, nothing has been published for
\* the batch
C17_Witness ==
    \E t \in Tasks :
        /\ tasks[t].pc = "batch"
        /\ Len(tasks[t].batch) = 1
        /\ input = Call("remove", A_C, None, NotCalled)
        /\ A_C \notin DOMAIN hookFiles
        /\ B_C \in DOMAIN hookFiles
        /\ A_C \in published_paths

\* the handler of task t has just stored `text` for path and is about to
\* re-index the path with `content`
Stored(t, path, text, content) ==
    /\ IF text = None THEN path \notin DOMAIN documents'
       ELSE path \in DOMAIN documents' /\ documents'[path] = Unwrap(text)
    /\ tasks'[t].pc = "reindex"
    /\ tasks'[t].path = path
    /\ tasks'[t].content = content

\* the entities of both plugins for the file are those parsed from text
EntitiesOf(hf, tf, key, text) ==
    /\ key \in DOMAIN hf
    /\ hf[key] = HookCollector[text]
    /\ key \in DOMAIN tf
    /\ tf[key] = TargetCollector[key][text]

\* C18: open and change store the document's full text, for a change the last
\* of its content changes, and the update that follows is update(path,
\* Some(text)) with the stored text on every plugin; close drops the stored
\* text and the update that follows is update(path, None) on every plugin,
\* after which the file's entities are those of its content on disk; no
\* re-index of a handler removes a file from the index
C18_OpenChangeClose ==
    [][\A t \in Tasks :
         /\ \A path \in UriPaths, text \in Texts :
              DidOpen(t, 1, path, text) =>
                  Stored(t, path, Some(text), Some(text))
         /\ \A path \in UriPaths,
               content_changes \in SeqsUpTo(Texts, MaxChanges) :
              (content_changes # <<>>
                 /\ DidChange(t, 1, path, content_changes)) =>
                  Stored(t, path,
                         Some(content_changes[Len(content_changes)]),
                         Some(content_changes[Len(content_changes)]))
         /\ \A path \in UriPaths :
              DidClose(t, 1, path) => Stored(t, path, None, None)
         /\ tasks[t].pc = "reindex" =>
              LET path == tasks[t].path
                  key == canonicalize_or_self(disk, path)
              IN  /\ input'.op = "update"
                  /\ input'.path = path
                  /\ DOMAIN hookFiles \subseteq DOMAIN hookFiles'
                  /\ DOMAIN targetsByFile \subseteq DOMAIN targetsByFile'
                  /\ IF tasks[t].kind = "close"
                     THEN /\ path \notin DOMAIN documents
                          /\ input'.content = None
                          /\ ~Failed(ret') =>
                               EntitiesOf(hookFiles', targetsByFile', key,
                                          disk[key])
                     ELSE /\ path \in DOMAIN documents
                          /\ input'.content = Some(documents[path])
                          /\ ~Failed(ret') =>
                               EntitiesOf(hookFiles', targetsByFile', key,
                                          documents[path])]_vars

\* C18 witness: a.c, opened with the text K1 while the disk holds K2, has been
\* closed: the document is dropped, the update was update(a.c, None), and the
\* file is indexed with the entities of K2
C18_Witness ==
    \E t \in Tasks :
        /\ tasks[t].kind = "close"
        /\ tasks[t].pc = "round"
        /\ A_C \notin DOMAIN documents
        /\ disk[A_C] = "K2"
        /\ input.op = "update" /\ input.path = A_C /\ input.content = None
        /\ EntitiesOf(hookFiles, targetsByFile, A_C, "K2")
        /\ A_C \in DOMAIN client
        /\ client[A_C] = <<>>

\* the list a plugin reports for a path, empty when it reports none
ReportedFor(reported, path) ==
    IF path \in DOMAIN reported THEN reported[path] ELSE <<>>

\* C19: the diagnostics the coordinator takes for a round are the plugins'
\* maps merged by path: a path is present exactly when some plugin reports
\* it, and its list is the init-dependency plugin's list followed by the hook
\* plugin's (the order the plugins are registered in), nothing lost and
\* nothing twice
C19_DiagnosticsMergedInPluginOrder ==
    [][\A t \in Tasks :
         (tasks[t].pc = "round" /\ tasks'[t].pc = "publish") =>
           LET init == InitDependencyPlugin_diagnostics(targetsByFile)
               hooks == HookPlugin_diagnostics(hookFiles)
               all == tasks'[t].diagnostics
           IN  /\ DOMAIN all = DOMAIN init \cup DOMAIN hooks
               /\ \A path \in DOMAIN all :
                    /\ all[path] = ReportedFor(init, path)
                                     \o ReportedFor(hooks, path)
                    /\ Len(all[path]) = Len(ReportedFor(init, path))
                                          + Len(ReportedFor(hooks, path))
    ]_vars

\* C19 witness: a round has taken, for a.c, a list made of diagnostics of both
\* plugins
C19_Witness ==
    \E t \in Tasks :
        /\ tasks[t].pc = "publish"
        /\ A_C \in DOMAIN tasks[t].diagnostics
        /\ A_C \in DOMAIN InitDependencyPlugin_diagnostics(targetsByFile)
        /\ A_C \in DOMAIN HookPlugin_diagnostics(hookFiles)
        /\ tasks[t].diagnostics[A_C] =
             InitDependencyPlugin_diagnostics(targetsByFile)[A_C]
               \o HookPlugin_diagnostics(hookFiles)[A_C]
        /\ Len(tasks[t].diagnostics[A_C]) >= 2

------------------------------------------------------------------------------
(* SpecVisit: both visitors over a translation unit of three macro         *)
(* occurrences, the second one drawn from bounded token sequences          *)

\* the most tokens between the parentheses of the drawn occurrence
MaxArgTokens == 5

X == <<"x">>
MacroNames == {S_HOOK, S_HOOK_RUN, S_INIT_TARGET}
ArgAlphabet == {X, COMMA, LPAREN, RPAREN}

\* x,x,x,x and x,x,x,x,x
ExampleFour == <<X, COMMA, X, COMMA, X, COMMA, X>>
ExampleFive == ExampleFour \o <<COMMA, X>>

ArgTokens == SeqsUpTo(ArgAlphabet, MaxArgTokens) \cup {ExampleFour, ExampleFive}

\* NAME(body)
Occurrence(name, body) == <<name, LPAREN>> \o body \o <<RPAREN>>

\* HOOK(build) on line 1 and INIT_TARGET(a,S,C,D()) on line 3
OtherOccurrences ==
    <<MacroExpansion(1, <<S_HOOK, LPAREN, S_build, RPAREN>>),
      MacroExpansion(3, InitTargetTexts(<<"a">>, <<>>))>>

\* the translation unit: the drawn occurrence on line 2, between the others
UnitWith(texts) ==
    <<OtherOccurrences[1], MacroExpansion(2, texts), OtherOccurrences[2]>>

InitVisit ==
    /\ IdleIndex
    /\ input \in {Occurrence(name, body) : name \in MacroNames,
                                           body \in ArgTokens}
    /\ output = Pending

\* on_file_updated of both plugins for a.c, from the parsed translation unit
\* on: the visitors run over the cursors and the result replaces the entry
VisitUnit(tf, hf, file, cursors) ==
    FirstError(hf,
        InitStore(tf, file, Ok(VisitTargetsAll(file, <<>>, cursors))),
        HookStore(hf, file,
                  Ok(VisitHooksAll(HookFileData(<<>>, <<>>), cursors))))

Visit ==
    /\ output = Pending
    /\ Assign(VisitUnit(targetsByFile, hookFiles, A_C, UnitWith(input)))
    /\ output' = Done(State_diagnostics(targetsByFile', hookFiles'))
    /\ UNCHANGED <<disk, input>>
    /\ UNCHANGED server

NextVisit == Visit

SpecVisit == InitVisit /\ [][NextVisit]_vars

\* the number of top-level arguments of NAME(...)
Arity(texts) == Len(TopLevelGroups(texts, Lay(2, 1, texts)))

\* HOOK or HOOK_RUN with other than 1 argument, INIT_TARGET with other than 4
WrongArity(texts) ==
    IF texts[1] = S_INIT_TARGET THEN Arity(texts) # 4 ELSE Arity(texts) # 1

\* C20: a macro occurrence with the wrong number of top-level arguments is
\* skipped entirely: the update succeeds, the file's definitions,
\* invocations and targets (and their dependency slots) are exactly those of
\* the file's other occurrences, and so are the diagnostics
C20_WrongArityOccurrenceSkipped ==
    (output # Pending /\ IsMacroCall(input) /\ WrongArity(input)) =>
        LET hooks == VisitHooksAll(HookFileData(<<>>, <<>>), OtherOccurrences)
            targets == VisitTargetsAll(A_C, <<>>, OtherOccurrences)
        IN  /\ ret = [init |-> "Ok", hooks |-> "Ok"]
            /\ DOMAIN hookFiles = {A_C}
            /\ hookFiles[A_C] = hooks
            /\ Len(hookFiles[A_C].definitions) = 1
            /\ Len(hookFiles[A_C].invocations) = 1
            /\ DOMAIN targetsByFile = {A_C}
            /\ targetsByFile[A_C] = targets
            /\ Len(targetsByFile[A_C]) = 1
            /\ Result(output) = <<>>

\* C20 witness: HOOK_RUN(x,x), between HOOK(build) and INIT_TARGET(a,S,C,D()),
\* has been visited; the file holds the hook build, its one invocation and the
\* target a, and nothing for x
C20_Witness ==
    /\ output # Pending
    /\ input = Occurrence(S_HOOK_RUN, <<X, COMMA, X>>)
    /\ WrongArity(input)
    /\ ret = [init |-> "Ok", hooks |-> "Ok"]
    /\ Len(hookFiles[A_C].invocations) = 1
    /\ hookFiles[A_C].definitions = <<HookDefinition(S_build)>>
    /\ Len(targetsByFile[A_C]) = 1

------------------------------------------------------------------------------
(* Claims about the visitors (SpecVisit) *)

\* HOOK() or HOOK_RUN()
EmptyArgument(texts) ==
    texts \in {Occurrence(S_HOOK, <<>>), Occurrence(S_HOOK_RUN, <<>>)}

\* the invocations of the file whose name is empty
EmptyNamed(invocations) ==
    {j \in 1..Len(invocations) : invocations[j].name = <<>>}

\* C21: a hook macro occurrence whose single argument is empty is recorded as
\* one invocation with the empty name, of kind Definition for HOOK and Run for
\* HOOK_RUN; completions are offered in its argument region, no diagnostic
\* names it and it adds no Hook Definition.  Every Hook Definition of the
\* index has a non-empty trimmed name and a Definition invocation of that
\* name in the same file
C21_EmptyNameRecorded ==
    output # Pending =>
        /\ \A f \in DOMAIN hookFiles :
             \A i \in 1..Len(hookFiles[f].definitions) :
               LET name == hookFiles[f].definitions[i].name
                   invocations == hookFiles[f].invocations
               IN  /\ name # <<>>
                   /\ trim(name) = name
                   /\ \E j \in 1..Len(invocations) :
                        /\ invocations[j].kind = "Definition"
                        /\ invocations[j].name = name
        /\ EmptyArgument(input) =>
             LET invocations == hookFiles[A_C].invocations
             IN  /\ Cardinality(EmptyNamed(invocations)) = 1
                 /\ \A j \in EmptyNamed(invocations) :
                      /\ invocations[j].kind =
                           (IF input[1] = S_HOOK THEN "Definition" ELSE "Run")
                      /\ HookPlugin_completions(hookFiles, disk, A_C,
                             invocations[j].argument_region.start) # None
                 /\ hookFiles[A_C].definitions = <<HookDefinition(S_build)>>
                 /\ Result(output) = <<>>

\* C21 witness: HOOK_RUN() has been visited and the file holds a Run
\* invocation with the empty name
C21_Witness ==
    /\ output # Pending
    /\ input = Occurrence(S_HOOK_RUN, <<>>)
    /\ \E j \in EmptyNamed(hookFiles[A_C].invocations) :
         hookFiles[A_C].invocations[j].kind = "Run"

------------------------------------------------------------------------------
(* SpecTarget: build_target applied to INIT_TARGET occurrences whose first *)
(* argument and dependency-list argument are drawn from bounded token      *)
(* sequences                                                               *)

\* the most tokens of the drawn dependency-list argument
MaxDeps == 4

LitA == Lit(<<"a">>)
\* a numeric literal and a character literal
Num1 == <<"1">>
CharC == <<APOSTROPHE, "c", APOSTROPHE>>
DepAlphabet == {<<"D">>, LPAREN, RPAREN, COMMA, LitA, Num1, CharC}
FirstArguments == {<<"n">>, Lit(<<"q">>)}

\* INIT_TARGET(first,S,C,deps)
TargetOccurrence(first, deps) ==
    Occurrence(S_INIT_TARGET,
               <<first, COMMA, <<"S">>, COMMA, <<"C">>, COMMA>> \o deps)

InitBuild ==
    /\ IdleIndex
    /\ input \in {TargetOccurrence(first, deps) :
                    first \in FirstArguments,
                    deps \in SeqsUpTo(DepAlphabet, MaxDeps)}
    /\ output = Pending

\* init.rs build_target on the occurrence, laid out on line 1 of a.c
Build ==
    /\ output = Pending
    /\ output' = Done(build_target(A_C, MacroExpansion(1, input)))
    /\ UNCHANGED <<disk, hookFiles, targetsByFile, ret, input>>
    /\ UNCHANGED server

NextBuild == Build

SpecTarget == InitBuild /\ [][NextBuild]_vars

\* the occurrence has four top-level arguments and a target was built from it
Built ==
    /\ output # Pending
    /\ Result(output) # None
    /\ IsMacroCall(input)

\* the tokens of the dependency-list argument, the fourth top-level group
DependencyTokens(texts) == TopLevelGroups(texts, Lay(1, 1, texts))[4]

\* a one-based location of the front end as a zero-based position
ZeroBased(loc) == Position(loc[1] - 1, loc[2] - 1)

\* lexicographic order of positions
PosLeq(p, q) == p[1] < q[1] \/ (p[1] = q[1] /\ p[2] <= q[2])

\* C22: the dependency_region of a target starts at the start of the first
\* token of the dependency-list argument (it is the occurrence's extent when
\* that argument has no token), has start <= end, ends at or after the end of
\* the argument's last literal token, and never ends before the end of the
\* merged range of the argument's tokens
C22_RegionCoversDependencyArgument ==
    Built =>
        LET region == Unwrap(Result(output)).dependency_region
            deps == DependencyTokens(input)
            cursor == MacroExpansion(1, input)
            literals == {i \in 1..Len(deps) : deps[i].kind = "Literal"}
        IN  /\ PosLeq(region.start, region.end)
            /\ IF deps = <<>>
               THEN region = Range(ZeroBased(cursor.locStart),
                                   ZeroBased(cursor.locEnd))
               ELSE /\ region.start = ZeroBased(deps[1].locStart)
                    /\ PosLeq(ZeroBased(deps[Len(deps)].locEnd), region.end)
            /\ \A i \in literals :
                 PosLeq(ZeroBased(deps[i].locEnd), region.end)

\* the token is a string literal
IsStringLiteral(token) == Head(token.text) = QUOTE

\* the text of a string literal without its quote characters
Unquoted(text) == SubSeq(text, 2, Len(text) - 1)

\* C23: the dependency slots of a target are, in source order, the string
\* literal tokens of the dependency-list argument, each with the literal's
\* own range and its text without the quotes as name; identifiers,
\* punctuation, numeric and character literals give no slot, and neither do
\* string literals of the first three arguments
C23_SlotsAreStringLiterals ==
    Built =>
        LET slots == Unwrap(Result(output)).dependency_slots
            literals == SelectSeq(DependencyTokens(input), IsStringLiteral)
        IN  /\ Len(slots) = Len(literals)
            /\ \A i \in 1..Len(slots) :
                 /\ i <= Len(literals)
                 /\ slots[i].range = Range(ZeroBased(literals[i].locStart),
                                           ZeroBased(literals[i].locEnd))
                 /\ slots[i].name = Unquoted(literals[i].text)

------------------------------------------------------------------------------
(* SpecLocate: build_hook_usage applied to hook occurrences some of whose  *)
(* locations the front end cannot resolve to a file, line and column       *)

\* what clang_getFileLocation writes for a location it cannot resolve: line 0
\* and column 0, resolved locations being one-based
Unresolved == <<0, 0>>

\* the token with its extent unresolved
LostToken(token) ==
    [token EXCEPT !.locStart = Unresolved, !.locEnd = Unresolved]

\* the cursor with the extents of the tokens numbered in `lost` unresolved,
\* and its own extent too unless `extent` holds
Relocated(cursor, lost, extent) ==
    [cursor EXCEPT
        !.tokens = [i \in 1..Len(cursor.tokens) |->
                       IF i \in lost THEN LostToken(cursor.tokens[i])
                       ELSE cursor.tokens[i]],
        !.locStart = IF extent THEN @ ELSE Unresolved,
        !.locEnd = IF extent THEN @ ELSE Unresolved]

\* HOOK(x), HOOK_RUN(x), HOOK() and HOOK_RUN()
LocatedTexts ==
    {Occurrence(name, body) : name \in {S_HOOK, S_HOOK_RUN},
                              body \in {<<>>, <<X>>}}

InitLocate ==
    /\ IdleIndex
    /\ input \in {Relocated(MacroExpansion(line, texts), lost, extent) :
                    line \in 1..(MaxLine + 1), texts \in LocatedTexts,
                    lost \in SUBSET (1..4), extent \in BOOLEAN}
    /\ output = Pending

\* hooks.rs visit_hooks, the call of build_hook_usage for the cursor
Locate ==
    /\ output = Pending
    /\ output' = Done(build_hook_usage(input,
                          IF input.spelling = S_HOOK THEN "Definition"
                          ELSE "Run"))
    /\ UNCHANGED <<disk, hookFiles, targetsByFile, ret, input>>
    /\ UNCHANGED server

NextLocate == Locate

SpecLocate == InitLocate /\ [][NextLocate]_vars

\* the extent of the token was resolved
Resolved(token) == token.locStart # Unresolved /\ token.locEnd # Unresolved

\* C24: a location the front end cannot resolve is never turned into a
\* position: the range that needed it fails, the occurrence takes the whole
\* extent of its macro node instead, and is dropped when that extent cannot be
\* resolved either; a resolved one-based (line, column) becomes
\* (line-1, column-1)
C24_UnresolvedLocationFallsBack ==
    output # Pending =>
        LET tokens == input.tokens
            open == tokens[2]
            close == tokens[Len(tokens)]
            extent == Range(ZeroBased(input.locStart),
                            ZeroBased(input.locEnd))
            usage == Result(output)
        IN  IF Resolved(open) /\ Resolved(close)
            THEN /\ usage # None
                 /\ Unwrap(usage).argument_region =
                      Range(ZeroBased(open.locEnd), ZeroBased(close.locStart))
            ELSE IF input.locStart # Unresolved
            THEN /\ usage # None
                 /\ Unwrap(usage).argument_region = extent
            ELSE usage = None

------------------------------------------------------------------------------
(* Claims about split_macro_args (SpecSplit), continued *)

\* the index of the first "(" of the spellings, 0 when there is none
FirstOpen(texts) ==
    LET opens == {i \in 1..Len(texts) : texts[i] = LPAREN}
    IN  IF opens = {} THEN 0 ELSE CHOOSE i \in opens : \A j \in opens : i <= j

------------------------------------------------------------------------------
(* SpecItems: InitDependencyPlugin::completions asked at a drawn path and  *)
(* position over a drawn index, whose target names differ in case only or  *)
(* not at all, within a file and between files.                            *)

MaxTargets == 2

ItemNames == {<<"a">>, <<"B">>, <<"b">>}
StageExprs == {<<"S">>, <<"T">>}

\* the target of INIT_TARGET(name,stage,C,D("x")) on line `line` of `file`
ItemTarget(file, line, name, stage) ==
    InitTarget(name, stage, <<"C">>, file,
               Range(Position(line - 1, 16), Position(line - 1, 20)),
               <<DependencySlot(<<"x">>, Range(Position(line - 1, 18),
                                               Position(line - 1, 21)))>>)

\* the targets of a file of at most n lines, one INIT_TARGET on each
ItemTargets(file, n) ==
    {[i \in 1..Len(choice) |->
         ItemTarget(file, i, choice[i][1], choice[i][2])] :
       choice \in SeqsUpTo(ItemNames \X StageExprs, n)}

\* an index of a.c and b.c, either of them possibly without indexed data
ItemIndexes ==
    {[p \in files |-> IF p = A_C THEN ta ELSE tb] :
       files \in SUBSET {A_C, B_C},
       ta \in ItemTargets(A_C, MaxTargets), tb \in ItemTargets(B_C, 1)}

ItemPositions ==
    {Position(0, 15), Position(0, 16), Position(0, 20), Position(0, 21),
     Position(1, 18), Position(2, 0)}

InitItems ==
    /\ disk \in [RealPaths -> {"K1"}] \cup {[p \in RealPaths |->
                                  IF p = A_C THEN NoFile ELSE "K1"]}
    /\ hookFiles = <<>>
    /\ targetsByFile \in ItemIndexes
    /\ ret = NotCalled
    /\ input = NoCall
    /\ output = Pending
    /\ IdleServer

\* a completion request reaching InitDependencyPlugin::completions
Complete ==
    /\ output = Pending
    /\ \E path \in {A_C, B_C, L_C} : \E position \in ItemPositions :
         /\ input' = <<path, position>>
         /\ output' = Done(InitDependencyPlugin_completions(
                               targetsByFile, disk, path, position))
    /\ UNCHANGED <<disk, hookFiles, targetsByFile, ret>>
    /\ UNCHANGED server

NextItems == Complete

SpecItems == InitItems /\ [][NextItems]_vars

\* the indexed targets, each named by its file and its place in the file
IndexedTargets ==
    UNION {{<<p, i>> : i \in 1..Len(targetsByFile[p])} :
             p \in DOMAIN targetsByFile}

\* the candidate the claim describes for one target
CandidateOf(pi) ==
    LET target == targetsByFile[pi[1]][pi[2]]
    IN  <<target.name, target.stage_expr \o <<"/">> \o target.scope_expr>>

\* C26: Init-target completions are none when the file has no indexed data or
\* the position is outside every dependency_region of the file's targets;
\* otherwise they are one candidate for each target of all indexed files,
\* labelled with the target's raw name and detailed "<stage>/<scope>" of that
\* target, in ascending order of the lower-cased name, targets of one file
\* whose names differ in case only keeping their order
C26_InitCompletions ==
    output # Pending =>
        LET path == input[1]
            pos == input[2]
            key == canonicalize_or_self(disk, path)
            res == Result(output)
            inside == /\ key \in DOMAIN targetsByFile
                      /\ \E i \in 1..Len(targetsByFile[key]) :
                           InsideRule(targetsByFile[key][i].dependency_region,
                                      pos)
        IN  IF ~inside THEN res = None
            ELSE /\ res # None
                 /\ LET list == Unwrap(res)
                        shown(c) == {i \in 1..Len(list) :
                                       <<list[i].label, list[i].detail>> = c}
                        meant(c) == {pi \in IndexedTargets : CandidateOf(pi) = c}
                        fold(i) == to_lowercase(list[i].label)
                    IN  /\ Len(list) = Cardinality(IndexedTargets)
                        /\ \A pi \in IndexedTargets :
                             Cardinality(shown(CandidateOf(pi)))
                               = Cardinality(meant(CandidateOf(pi)))
                        /\ \A i \in 1..Len(list) : \A j \in 1..Len(list) :
                             i < j => ~StrLess(fold(j), fold(i))
                        /\ \A pi \in IndexedTargets : \A pj \in IndexedTargets :
                             ( /\ pi[1] = pj[1] /\ pi[2] < pj[2]
                               /\ to_lowercase(CandidateOf(pi)[1])
                                    = to_lowercase(CandidateOf(pj)[1])
                               /\ Cardinality(meant(CandidateOf(pi))) = 1
                               /\ Cardinality(meant(CandidateOf(pj))) = 1 )
                             => \A i \in shown(CandidateOf(pi)) :
                                  \A j \in shown(CandidateOf(pj)) : i < j

\* C26 witness: a.c holds the targets b (stage T) and a, b.c the target B; at
\* the opening parenthesis of D in line 1 of a.c the candidates are a, then
\* b or B by the order of the files, and through the link l.c as well; one
\* column before the parenthesis there would be none
C26_Witness ==
    /\ output # Pending
    /\ input = <<L_C, Position(0, 16)>>
    /\ DOMAIN targetsByFile = {A_C, B_C}
    /\ targetsByFile[A_C] = <<ItemTarget(A_C, 1, <<"b">>, <<"T">>),
                              ItemTarget(A_C, 2, <<"a">>, <<"S">>)>>
    /\ targetsByFile[B_C] = <<ItemTarget(B_C, 1, <<"B">>, <<"S">>)>>
    /\ Result(output) # None
    /\ Len(Unwrap(Result(output))) = 3
    /\ Unwrap(Result(output))[1].label = <<"a">>
    /\ Unwrap(Result(output))[1].detail = <<"S", "/", "C">>
    /\ {Unwrap(Result(output))[i].label : i \in 2..3} = {<<"b">>, <<"B">>}
    /\ InitDependencyPlugin_completions(targetsByFile, disk, L_C,
                                         Position(0, 15)) = None

------------------------------------------------------------------------------
(* SpecLock: the handlers of a.c's open, change and close events at the    *)
(* grain of the state lock: self.state.lock().await is a step of its own,  *)
(* taken when no task owns the guard, and the steps that read or write the  *)
(* state are taken by the owner, who drops the guard where the code does.   *)

\* the task owns the MutexGuard
Owns(t) == tasks[t].guard

\* the task's next statement is self.state.lock().await: a handler starting,
\* reindex, and the two acquisitions of publish_all_diagnostics
AtLock(t) ==
    \/ Free(t, 2)
    \/ tasks[t].pc \in {"reindex", "round"}
    \/ /\ tasks[t].pc = "publish"
       /\ tasks[t].diagnostics = <<>>
       /\ tasks[t].stale = {}

\* tokio::sync::Mutex::lock: granted when no task owns the guard
Acquire(t) ==
    /\ Running
    /\ AtLock(t)
    /\ \A u \in Tasks : ~Owns(u)
    /\ tasks' = [tasks EXCEPT ![t].guard = TRUE]
    /\ UNCHANGED <<disk, hookFiles, targetsByFile, ret, input, output,
                   documents, published_paths, client>>

NextLock ==
    \/ \E t \in Tasks : Acquire(t)
    \/ \E t \in Tasks, text \in Texts : Owns(t) /\ DidOpen(t, 2, A_C, text)
    \/ \E t \in Tasks, content_changes \in SeqsUpTo(Texts, MaxChanges) :
           /\ Owns(t)
           /\ content_changes # <<>>
           /\ DidChange(t, 2, A_C, content_changes)
    \/ \E t \in Tasks : Owns(t) /\ DidClose(t, 2, A_C)
    \/ \E t \in Tasks, fe \in FrontEnds : Owns(t) /\ Reindex(t, fe)
    \/ \E t \in Tasks : Owns(t) /\ Round(t)
    \/ \E t \in Tasks, path \in RealPaths \cup {L_C} : Publish(t, path)
    \/ \E t \in Tasks, path \in RealPaths \cup {L_C} : Retract(t, path)
    \/ \E t \in Tasks : Owns(t) /\ Commit(t)

SpecLock == InitServer /\ [][NextLock]_vars

\* the task is inside the loops of publish_all_diagnostics, with a
\* publish_diagnostics to send or to wait for
Publishing(t) ==
    /\ tasks[t].pc = "publish"
    /\ tasks[t].diagnostics # <<>> \/ tasks[t].stale # {}

\* the step reads or writes the index, the document cache or the published
\* set on behalf of task t: t moves on to its next statement, or the state or
\* the recorded plugin call changes as t's position does
Accesses(t) ==
    /\ tasks'[t] # tasks[t]
    /\ \/ tasks'[t].pc # tasks[t].pc
       \/ <<documents, hookFiles, targetsByFile, published_paths, input>>'
            # <<documents, hookFiles, targetsByFile, published_paths, input>>

\* C27: a task with a publish_diagnostics to send or to wait for does not own
\* the lock, a publish_diagnostics is sent by a task that does not own it, at
\* most one task owns it, and every step that reads or writes the index, the
\* document cache or the published set is taken by the task that owns it
C27_LockNotHeldAcrossPublish ==
    /\ [](\A t \in Tasks : Publishing(t) => ~Owns(t))
    /\ [](Cardinality({t \in Tasks : Owns(t)}) <= 1)
    /\ [][\A t \in Tasks :
            /\ tasks'[t].sent # tasks[t].sent /\ tasks'[t].pc = "publish"
                 => ~Owns(t) /\ ~tasks'[t].guard
            /\ Accesses(t) => Owns(t)]_vars

\* C27 witness: one handler has taken its snapshot and has a list to send,
\* not owning the lock, while the other one owns the lock for its reindex
C27_Witness ==
    /\ Publishing("t1") /\ ~Owns("t1")
    /\ tasks["t2"].pc = "reindex" /\ Owns("t2")

\* C28: under every interleaving of concurrent handlers, once all of them have
\* finished, the list most recently published for a file is the list the
\* index yields for it now, and a file the index yields no list for has an
\* empty list, or none at all, as the last one published
C28_LastPublishedIsCurrent ==
    Quiescent =>
        LET D == State_diagnostics(targetsByFile, hookFiles)
        IN  \A p \in RealPaths \cup {L_C} :
                IF p \in DOMAIN D
                THEN p \in DOMAIN client /\ client[p] = D[p]
                ELSE p \in DOMAIN client => client[p] = <<>>

------------------------------------------------------------------------------
(* SpecCompletion: a completion request answered by the coordinator over   *)
(* drawn indexes of the two plugins, in which a position can lie inside a  *)
(* dependency_region, inside an argument_region, inside both (a HOOK_RUN    *)
(* written among the dependencies) or inside neither.                       *)

\* a mutated State::completions that appends the later plugin's list
State_completions_merged(tf, hf, dsk, path, position) ==
    LET init == InitDependencyPlugin_completions(tf, dsk, path, position)
        hooks == HookPlugin_completions(hf, dsk, path, position)
    IN  IF init = None THEN hooks
        ELSE IF hooks = None THEN init
        ELSE Some(Unwrap(init) \o Unwrap(hooks))

\* lsp.rs State::completions over the default plugin list, the init plugin
\* registered before the hook plugin (main.rs default_values_t)
State_completions(tf, hf, dsk, path, position) ==
    LET init == InitDependencyPlugin_completions(tf, dsk, path, position)
    IN  IF init # None THEN init
        ELSE HookPlugin_completions(hf, dsk, path, position)

\* lsp.rs ElysiumLsp::completion for the URI of a local file: the path is
\* canonicalized where that succeeds, and the plugins are asked under the lock
ElysiumLsp_completion(tf, hf, dsk, path, position) ==
    State_completions(tf, hf, dsk, canonicalize_or_self(dsk, path), position)

\* the hook data of a file that defines `name` and runs it on line `line`,
\* the parentheses of the HOOK_RUN at columns 18 and 24
ItemHooks(name, line) ==
    HookFileData(<<HookDefinition(name)>>,
                 <<HookInvocation(name,
                       Range(Position(line - 1, 19), Position(line - 1, 24)),
                       Range(Position(line - 1, 18), Position(line - 1, 25)),
                       "Run")>>)

ItemHookIndexes ==
    {[p \in files |-> IF p = A_C THEN ItemHooks(S_build, la)
                      ELSE ItemHooks(S_missing, lb)] :
       files \in SUBSET {A_C, B_C}, la \in 1..2, lb \in 1..2}

InitCompletion ==
    /\ disk \in [RealPaths -> {"K1"}] \cup {[p \in RealPaths |->
                                  IF p = A_C THEN NoFile ELSE "K1"]}
    /\ hookFiles \in ItemHookIndexes
    /\ targetsByFile \in {index \in ItemIndexes :
                            \A p \in DOMAIN index : Len(index[p]) <= 1}
    /\ ret = NotCalled
    /\ input = NoCall
    /\ output = Pending
    /\ IdleServer

\* a textDocument/completion request
Completion ==
    /\ output = Pending
    /\ \E path \in {A_C, B_C, L_C} :
       \E position \in ItemPositions \cup {Position(0, 22)} :
         /\ input' = <<path, position>>
         /\ output' = Done(ElysiumLsp_completion(targetsByFile, hookFiles,
                                                  disk, path, position))
    /\ UNCHANGED <<disk, hookFiles, targetsByFile, ret>>
    /\ UNCHANGED server

NextCompletion == Completion

SpecCompletion == InitCompletion /\ [][NextCompletion]_vars

\* C29: the answer to a completion request is the list of the init plugin, the
\* first registered, when its completions are not none; else the list of the
\* hook plugin when its completions are not none (a plugin that returns none
\* does not hide the later one's answer); and none only when both return none:
\* the answer is always one plugin's list, never the two merged
C29_FirstPluginWithAnswer ==
    output # Pending =>
        LET first == InitDependencyPlugin_completions(targetsByFile, disk,
                                                       input[1], input[2])
            second == HookPlugin_completions(hookFiles, disk,
                                             input[1], input[2])
            answer == Result(output)
        IN  /\ first # None => answer = first
            /\ (first = None /\ second # None) => answer = second
            /\ (answer = None) <=> (first = None /\ second = None)

\* C29 witness: at a position inside both a dependency_region and an
\* argument_region of a.c, asked through the link l.c, both plugins have a
\* list, the two lists differ, and the answer is the init plugin's
C29_Witness ==
    /\ output # Pending
    /\ input = <<L_C, Position(0, 20)>>
    /\ LET first == InitDependencyPlugin_completions(targetsByFile, disk,
                                                      L_C, Position(0, 20))
           second == HookPlugin_completions(hookFiles, disk,
                                            L_C, Position(0, 20))
       IN  /\ first # None /\ second # None
           /\ Unwrap(first) # <<>> /\ Unwrap(second) # <<>>
           /\ first # second
           /\ Result(output) = first

\* a second witness of C29's case: the init plugin has no opinion at a position
\* inside an argument_region only, and the answer is the hook plugin's list
C29_WitnessLater ==
    /\ output # Pending
    /\ input[2] = Position(0, 22)
    /\ InitDependencyPlugin_completions(targetsByFile, disk,
                                         input[1], input[2]) = None
    /\ Result(output) # None
    /\ Result(output) = HookPlugin_completions(hookFiles, disk,
                                               input[1], input[2])

Cached(path) ==
    /\ path \in DOMAIN documents
    /\ EntitiesOf(hookFiles, targetsByFile,
                  canonicalize_or_self(disk, path), documents[path])

\* a handler is at a watched-file change that names the file of path
WatchedNames(path) ==
    \E t \in Tasks :
        /\ tasks[t].pc = "batch"
        /\ canonicalize_or_self(disk, Head(tasks[t].batch).path)
             = canonicalize_or_self(disk, path)

====
